---- MODULE Spec2Model ----
(***************************************************************************)
(* Bias Review & Influence Monitoring subsystem of the visa-processing     *)
(* backend (app/backend): the deterministic sampler, the snapshot cache    *)
(* and the senior-officer audit workflow.                                  *)
(*                                                                         *)
(* Conventions                                                             *)
(*  - a table is a sequence of rows in insertion order; a query without    *)
(*    ORDER BY returns the matching rows in that order;                    *)
(*  - a datetime is a number of hours; DatetimeMin is datetime.min;        *)
(*  - Python None is the string "None", NoDatetime in a datetime column,  *)
(*    and 0 for a missing numeric query parameter (the code reads both    *)
(*    with "x or default");                                                *)
(*  - a sampling rate is a number of hundredths (0.5 is 50);               *)
(*  - generate_id is modelled by a counter: ids are fresh;                 *)
(*  - a FlagDecisionRule names its category and its decision by their     *)
(*    codes (codes are unique), where the table holds their row ids.       *)
(***************************************************************************)
EXTENDS Integers, Sequences, FiniteSets, TLC

VARIABLES
    now,              \* datetime.utcnow(), in hours
    applications,     \* table applications
    bias_reviews,     \* table bias_reviews
    sample,           \* response of the last get_review_sample call
    prevSample,       \* response of the call before it
    snapshots,        \* table bias_monitoring_snapshots
    next_id,          \* the ids generate_id has handed out
    jobs,             \* background tasks scheduled and not yet run
    inflight,         \* get_or_create_snapshot requests between query and insert
    snapResp,         \* response of the last snapshot request
    documents,        \* table documents
    flagged_documents,    \* table flagged_documents
    review_audits,    \* table review_audits
    status_updates,   \* table status_updates
    flag_categories,  \* table flag_categories
    decision_categories,  \* table decision_categories
    flag_decision_rules,  \* table flag_decision_rules
    auditResp,        \* response of the last request of the audit workflow
    bias_influence_attributes,  \* table bias_influence_attributes, ordered by id
    bias_influence_models,      \* table bias_influence_models
    bias_influence_factors,     \* table bias_influence_factors
    libraries,        \* which of the optional imports of the service succeeded
    modelResp         \* response of the last leaderboard request

dataVars == <<applications, bias_reviews>>
sampleVars == <<sample, prevSample>>
snapVars == <<snapshots, jobs, inflight, snapResp>>
catalogVars == <<flag_categories, decision_categories, flag_decision_rules>>
auditVars == <<documents, flagged_documents, review_audits, status_updates,
               flag_categories, decision_categories, flag_decision_rules, auditResp>>

influenceVars == <<bias_influence_attributes, bias_influence_models,
                   bias_influence_factors, libraries, modelResp>>

vars == <<now, applications, bias_reviews, sample, prevSample,
          snapshots, next_id, jobs, inflight, snapResp,
          documents, flagged_documents, review_audits, status_updates,
          flag_categories, decision_categories, flag_decision_rules, auditResp,
          bias_influence_attributes, bias_influence_models,
          bias_influence_factors, libraries, modelResp>>

\* the tables no sampler or snapshot request touches
NoAuditData ==
    /\ documents = <<>>
    /\ flagged_documents = <<>>
    /\ review_audits = <<>>
    /\ status_updates = <<>>
    /\ flag_categories = <<>>
    /\ decision_categories = <<>>
    /\ flag_decision_rules = {}
    /\ auditResp = [kind |-> "none"]

\* the tables of the influence model, empty, with every import available
NoInfluenceData ==
    /\ bias_influence_attributes = <<>>
    /\ bias_influence_models = <<>>
    /\ bias_influence_factors = <<>>
    /\ libraries = [sklearn |-> TRUE, numpy |-> TRUE]
    /\ modelResp = [kind |-> "none"]

NoneVal == "None"
NoResponse == [kind |-> "none"]
DatetimeMin == 0
NoDatetime == 0 - 1

Max(a, b) == IF a >= b THEN a ELSE b
Min(a, b) == IF a <= b THEN a ELSE b

Range(s) == {s[i] : i \in 1..Len(s)}

(***************************************************************************)
(* Bounds                                                                  *)
(***************************************************************************)
MaxApps == 3          \* rows of the applications table in the sampler runs
MaxSampleTicks == 1   \* clock advances in the sampler runs
MaxSnapshots == 3     \* rows of the bias_monitoring_snapshots table
MaxJobs == 1          \* background tasks waiting at one time
MaxSnapClock == 26    \* last hour of the snapshot runs
MaxRequests == 2      \* get_or_create_snapshot requests running at one time
MaxConcClock == 13    \* last hour of the runs with interleaved snapshot requests

(***************************************************************************)
(* Deterministic sampler (services/bias_monitoring.py)                     *)
(***************************************************************************)
HoursPerDay == 24

\* application ids of the sampler runs; the first two have the same first
\* eight hex digits of sha1("<id>:30")
AppIdPool == <<"app-74450", "app-115345", "app-1", "app-2", "app-3">>

\* int(sha1(f"{id}:{days_back}").hexdigest()[:8], 16) as <<high 16 bits, low 16 bits>>
Sha1Prefix ==
    [id \in Range(AppIdPool) |->
        CASE id = "app-74450"  -> (1 :> <<51106, 38515>> @@ 30 :> <<32550, 51346>>)
          [] id = "app-115345" -> (1 :> <<58852, 23520>> @@ 30 :> <<32550, 51346>>)
          [] id = "app-1"      -> (1 :> <<51058, 52420>> @@ 30 :> <<53104, 32288>>)
          [] id = "app-2"      -> (1 :> <<12614, 48168>> @@ 30 :> <<60515, 62138>>)
          [] id = "app-3"      -> (1 :> <<10303, 24747>> @@ 30 :> <<33732, 24817>>)]

\* sample_rate = max(0.0, min(sample_rate or 0.0, 1.0)) or 1.0
ClampSampleRate(sample_rate) ==
    LET clamped == Max(0, Min(sample_rate, 100))
    IN  IF clamped = 0 THEN 100 ELSE clamped

\* days_back = max(1, days_back or 30)
ClampDaysBack(days_back) ==
    Max(1, IF days_back = 0 THEN 30 ELSE days_back)

\* the query of get_review_sample: rejected applications updated since the cutoff
RejectedInWindow(days_back) ==
    LET cutoff == now - days_back * HoursPerDay
    IN  SelectSeq(applications,
                  LAMBDA app : app.status = "rejected" /\ app.updated_at >= cutoff)

\* a stability key that leaves the submission time out
StabilityKeyIgnoringTime(app, days_back) ==
    <<Sha1Prefix[app.id][days_back][1], Sha1Prefix[app.id][days_back][2], DatetimeMin>>

\* stability_key(app): (score, app.submitted_at or datetime.min); the score
\* int(digest[:8], 16) / 0xFFFFFFFF is strictly increasing in the 32-bit prefix
stability_key(app, days_back) ==
    <<Sha1Prefix[app.id][days_back][1], Sha1Prefix[app.id][days_back][2],
      IF app.submitted_at = NoDatetime THEN DatetimeMin ELSE app.submitted_at>>

\* tuple comparison of two stability keys
KeyLess(k1, k2) ==
    \/ k1[1] < k2[1]
    \/ k1[1] = k2[1] /\ k1[2] < k2[2]
    \/ k1[1] = k2[1] /\ k1[2] = k2[2] /\ k1[3] < k2[3]

RECURSIVE InsertByKey(_, _, _)
\* x put into the sorted sequence s behind every element whose key is not greater
InsertByKey(x, s, days_back) ==
    IF s = <<>> THEN <<x>>
    ELSE IF KeyLess(stability_key(x, days_back), stability_key(Head(s), days_back))
         THEN <<x>> \o s
         ELSE <<Head(s)>> \o InsertByKey(x, Tail(s), days_back)

RECURSIVE SortedByKey(_, _)
\* sorted(applications, key=stability_key): a stable sort
SortedByKey(apps, days_back) ==
    IF apps = <<>> THEN <<>>
    ELSE InsertByKey(apps[Len(apps)], SortedByKey(SubSeq(apps, 1, Len(apps) - 1), days_back),
                     days_back)

\* ranked[:sample_size]
deterministic_sample(apps, sample_size, days_back) ==
    SubSeq(SortedByKey(apps, days_back), 1, Min(sample_size, Len(apps)))

\* a sample size rounded up instead of down
SampleSizeRoundedUp(total_rejected, sample_rate) ==
    Max(1, (total_rejected * sample_rate + 99) \div 100)

\* sample_size = max(1, int(total_rejected * sample_rate))
SampleSize(total_rejected, sample_rate) ==
    Max(1, (total_rejected * sample_rate) \div 100)

\* _load_latest_reviews, for one application: the review with the greatest
\* reviewed_at as <<review>>, and <<>> when the application has none
LatestReview(app_id) ==
    LET mine == SelectSeq(bias_reviews, LAMBDA r : r.application_id = app_id)
        best == CHOOSE i \in 1..Len(mine) :
                    /\ \A j \in 1..Len(mine) : mine[j].reviewed_at <= mine[i].reviewed_at
                    /\ \A j \in 1..(i - 1) : mine[j].reviewed_at < mine[i].reviewed_at
    IN  IF mine = <<>> THEN <<>> ELSE <<mine[best]>>

\* one entry of "cases"
CasePayload(app) ==
    LET review == LatestReview(app.id)
    IN  [id            |-> app.id,
         status        |-> app.status,
         reviewed      |-> review # <<>>,
         review_result |-> IF review = <<>> THEN NoneVal ELSE review[1].result,
         audit_status  |-> IF review = <<>> THEN "pending_audit" ELSE review[1].audit_status]

\* round(bias_count / reviewed_count * 100, 2) in hundredths of a percent
BiasRate(bias_count, reviewed_count) ==
    IF reviewed_count = 0 THEN 0
    ELSE (bias_count * 10000 * 2 + reviewed_count) \div (2 * reviewed_count)

\* _build_statistics
build_statistics(cases, total_rejected) ==
    LET reviewed_count == Cardinality({i \in 1..Len(cases) : cases[i].reviewed})
        bias_count == Cardinality({i \in 1..Len(cases) : cases[i].review_result = "biased"})
    IN  [total_rejected      |-> total_rejected,
         sample_size         |-> Len(cases),
         reviewed_count      |-> reviewed_count,
         bias_detected_count |-> bias_count,
         bias_rate           |-> BiasRate(bias_count, reviewed_count)]

\* get_review_sample(sample_rate, days_back): the response
get_review_sample(raw_rate, raw_days) ==
    LET sample_rate == ClampSampleRate(raw_rate)
        days_back == ClampDaysBack(raw_days)
        rejected_apps == RejectedInWindow(days_back)
        total_rejected == Len(rejected_apps)
        selected_apps == deterministic_sample(rejected_apps,
                                              SampleSize(total_rejected, sample_rate), days_back)
        cases == [i \in 1..Len(selected_apps) |-> CasePayload(selected_apps[i])]
    IN  IF total_rejected = 0
        THEN [kind |-> "sample", sample_rate |-> raw_rate, days_back |-> raw_days, at |-> now,
              cases |-> <<>>,
              statistics |-> [total_rejected |-> 0, sample_size |-> 0, reviewed_count |-> 0,
                              bias_detected_count |-> 0, bias_rate |-> 0]]
        ELSE [kind |-> "sample", sample_rate |-> raw_rate, days_back |-> raw_days, at |-> now,
              cases |-> cases,
              statistics |-> build_statistics(cases, total_rejected)]

(***************************************************************************)
(* Sampler runs: a fixed dataset, the clock, and sample requests           *)
(***************************************************************************)
SampleStart == 100 * HoursPerDay

\* the rows a dataset is made of: submitted two or three days ago and updated
\* half a day ago, or updated exactly thirty days ago
SampleProfiles ==
    { [status |-> "rejected", updated_at |-> SampleStart - 12,
       submitted_at |-> SampleStart - 48, review |-> NoneVal],
      [status |-> "rejected", updated_at |-> SampleStart - 12,
       submitted_at |-> SampleStart - 72, review |-> "biased"],
      [status |-> "rejected", updated_at |-> SampleStart - 30 * HoursPerDay,
       submitted_at |-> NoDatetime, review |-> "justified"],
      [status |-> "approved", updated_at |-> SampleStart - 12,
       submitted_at |-> SampleStart - 48, review |-> NoneVal] }

SampleRates == {0, 50, 75, 100, 150}
SampleDays == {0, 1}

ApplicationRow(id, p) ==
    [id |-> id, status |-> p.status, visa_type |-> "tourist",
     updated_at |-> p.updated_at, submitted_at |-> p.submitted_at,
     assigned_officer_id |-> NoneVal]

ReviewRow(id, app_id, result, audit_status, reviewed_at) ==
    [id |-> id, application_id |-> app_id, officer_id |-> "maria.schmidt",
     result |-> result, audit_status |-> audit_status, reviewed_at |-> reviewed_at,
     updated_at |-> reviewed_at]

RECURSIVE SampleReviews(_, _)
\* the bias_reviews rows of a dataset: one review per profile that has one
SampleReviews(profiles, i) ==
    IF i > Len(profiles) THEN <<>>
    ELSE (IF profiles[i].review = NoneVal THEN <<>>
          ELSE <<ReviewRow(i, AppIdPool[i], profiles[i].review, "pending",
                           profiles[i].updated_at + 1)>>)
         \o SampleReviews(profiles, i + 1)

SampleInit ==
    /\ now = SampleStart
    /\ \E n \in 0..MaxApps : \E profiles \in [1..n -> SampleProfiles] :
          /\ applications = [i \in 1..n |-> ApplicationRow(AppIdPool[i], profiles[i])]
          /\ bias_reviews = SampleReviews(profiles, 1)
    /\ sample = NoResponse
    /\ prevSample = NoResponse
    /\ snapshots = <<>>
    /\ next_id = 0
    /\ jobs = <<>>
    /\ inflight = <<>>
    /\ snapResp = NoResponse
    /\ NoInfluenceData
    /\ NoAuditData

\* GET sample?sample_rate&days_back
GetReviewSample(raw_rate, raw_days) ==
    /\ sample' = get_review_sample(raw_rate, raw_days)
    /\ prevSample' = sample
    /\ UNCHANGED <<now, dataVars, snapVars, next_id, auditVars, influenceVars>>

\* an hour passes
SampleTick ==
    /\ now < SampleStart + MaxSampleTicks
    /\ now' = now + 1
    /\ UNCHANGED <<dataVars, sampleVars, snapVars, next_id, auditVars, influenceVars>>

SampleNext ==
    \/ \E raw_rate \in SampleRates, raw_days \in SampleDays : GetReviewSample(raw_rate, raw_days)
    \/ SampleTick

SampleSpec == SampleInit /\ [][SampleNext]_vars

(***************************************************************************)
(* Claims about the sampler                                                *)
(***************************************************************************)
IsSample(resp) == resp.kind = "sample"

CaseIds(resp) == [i \in 1..Len(resp.cases) |-> resp.cases[i].id]

\* the rows the window of a recorded request held when it was made
EligibleAt(resp) ==
    {i \in 1..Len(applications) :
        /\ applications[i].status = "rejected"
        /\ applications[i].updated_at >= resp.at - ClampDaysBack(resp.days_back) * HoursPerDay}

EligibleIdsAt(resp) == {applications[i].id : i \in EligibleAt(resp)}

AppById(id) == applications[CHOOSE i \in 1..Len(applications) : applications[i].id = id]

\* the rank of an application: hash of (id, days_back), then submission time
RankKey(id, days) ==
    <<Sha1Prefix[id][days][1], Sha1Prefix[id][days][2],
      IF AppById(id).submitted_at = NoDatetime THEN DatetimeMin ELSE AppById(id).submitted_at>>

RankLeq(id1, id2, days) == ~KeyLess(RankKey(id2, days), RankKey(id1, days))

\* the cases of a response are a prefix of the ranking of its window
IsRankedPrefix(resp) ==
    LET ids == CaseIds(resp)
        days == ClampDaysBack(resp.days_back)
    IN  /\ Range(ids) \subseteq EligibleIdsAt(resp)
        /\ \A i, j \in 1..Len(ids) : i < j => RankLeq(ids[i], ids[j], days)
        /\ \A i \in 1..Len(ids) : \A other \in EligibleIdsAt(resp) \ Range(ids) :
              RankLeq(ids[i], other, days)

SameRequest(r1, r2) ==
    /\ IsSample(r1) /\ IsSample(r2)
    /\ r1.sample_rate = r2.sample_rate
    /\ r1.days_back = r2.days_back

\* C1 as stated: over a fixed dataset two calls with the same (sample_rate,
\* days_back) return the same application ids in the same order.
C1_SameRequestSameSample ==
    SameRequest(prevSample, sample) => CaseIds(prevSample) = CaseIds(sample)

\* C1 amended: two calls with the same (sample_rate, days_back) over a fixed
\* dataset return the same application ids in the same order provided the same
\* rejected applications lie inside the window at both calls (the window is
\* counted back from the time of the call); every selection is the prefix of
\* the window's applications ranked by the hash of (id, days_back), ties broken
\* by submission time.
C1_StableSampleWithinWindow ==
    /\ (SameRequest(prevSample, sample) /\ EligibleAt(prevSample) = EligibleAt(sample))
          => CaseIds(prevSample) = CaseIds(sample)
    /\ IsSample(sample) => IsRankedPrefix(sample)

\* a repeated request, after the clock moved, whose window held the two
\* applications with equal hashes and different submission times
C1_Witness ==
    /\ SameRequest(prevSample, sample)
    /\ prevSample.at < sample.at
    /\ EligibleAt(prevSample) = EligibleAt(sample)
    /\ {1, 2} \subseteq EligibleAt(sample)
    /\ ClampDaysBack(sample.days_back) = 30
    /\ applications[1].submitted_at # applications[2].submitted_at
    /\ Len(sample.cases) = 1
    /\ Len(applications) = 3

\* C2: the sample holds max(1, floor(T * r)) cases, never more than T, each a
\* distinct rejected application of the window; T = 0 gives no case and zeroed
\* statistics; r = 1.0 gives every rejected application of the window.
C2_SampleSize ==
    IsSample(sample) =>
        LET T == Cardinality(EligibleAt(sample))
            r == ClampSampleRate(sample.sample_rate)
            ids == CaseIds(sample)
        IN  /\ T > 0 => Len(ids) = Max(1, (T * r) \div 100)
            /\ Len(ids) <= T
            /\ Range(ids) \subseteq EligibleIdsAt(sample)
            /\ \A i, j \in 1..Len(ids) : i # j => ids[i] # ids[j]
            /\ T = 0 => /\ sample.cases = <<>>
                        /\ sample.statistics =
                              [total_rejected |-> 0, sample_size |-> 0, reviewed_count |-> 0,
                               bias_detected_count |-> 0, bias_rate |-> 0]
            /\ r = 100 => Range(ids) = EligibleIdsAt(sample)
            /\ sample.statistics.total_rejected = T
            /\ sample.statistics.sample_size = Len(ids)

\* a sample of two out of three rejected applications at rate 0.75
C2_Witness ==
    /\ IsSample(sample)
    /\ Cardinality(EligibleAt(sample)) = 3
    /\ sample.sample_rate = 75
    /\ Len(sample.cases) = 2

(***************************************************************************)
(* Snapshot cache (services/bias_monitoring.py, routes/bias_monitoring.py) *)
(***************************************************************************)
SNAPSHOT_REFRESH_HOURS == 12

\* the rows .filter(window_days == days_back).order_by(generated_at.desc()).first()
\* can return: a row of the window with the greatest generated_at
LatestSnapshots(days_back) ==
    {i \in 1..Len(snapshots) :
        /\ snapshots[i].window_days = days_back
        /\ \A j \in 1..Len(snapshots) :
              snapshots[j].window_days = days_back
                  => snapshots[j].generated_at <= snapshots[i].generated_at}

\* the same query without the window filter
LatestSnapshotsOfAnyWindow(days_back) ==
    {i \in 1..Len(snapshots) :
        \A j \in 1..Len(snapshots) : snapshots[j].generated_at <= snapshots[i].generated_at}

\* the query of get_or_create_snapshot
SnapshotQuery(days_back) == LatestSnapshots(days_back)

\* snapshot.generated_at >= freshness_cutoff
IsFresh(snapshot, freshness_cutoff) == snapshot.generated_at >= freshness_cutoff

\* _serialize_snapshot, with the request it answers (days_back as given, and the
\* time of the call)
serialize_snapshot(snapshot, raw_days) ==
    [kind |-> "snapshot", days_back |-> raw_days, at |-> now,
     snapshot_id |-> snapshot.id, generated_at |-> snapshot.generated_at,
     window_days |-> snapshot.window_days]

\* the row _create_snapshot(days_back) adds
NewSnapshot(days_back) ==
    [id |-> next_id + 1, generated_at |-> now, window_days |-> days_back]

\* _create_snapshot(days_back): db.add(snapshot); db.commit()
create_snapshot(days_back) ==
    /\ Len(snapshots) < MaxSnapshots
    /\ snapshots' = Append(snapshots, NewSnapshot(days_back))
    /\ next_id' = next_id + 1

\* what .first() gives a request: <<>> for no row, or <<row>>
QueryResults(days_back) ==
    IF SnapshotQuery(days_back) = {} THEN {<<>>}
    ELSE {<<snapshots[i]>> : i \in SnapshotQuery(days_back)}

\* if snapshot and snapshot.generated_at and snapshot.generated_at >= freshness_cutoff
CacheHit(found, freshness_cutoff) ==
    IF found = <<>> THEN FALSE ELSE IsFresh(found[1], freshness_cutoff)

\* get_or_create_snapshot(days_back), the whole call in one step
GetOrCreateSnapshot(raw_days) ==
    LET days_back == ClampDaysBack(raw_days)
        freshness_cutoff == now - SNAPSHOT_REFRESH_HOURS
    IN  /\ \E found \in QueryResults(days_back) :
              \/ /\ CacheHit(found, freshness_cutoff)
                 /\ snapResp' = serialize_snapshot(found[1], raw_days)
                 /\ UNCHANGED <<snapshots, next_id>>
              \/ /\ ~CacheHit(found, freshness_cutoff)
                 /\ create_snapshot(days_back)
                 /\ snapResp' = serialize_snapshot(NewSnapshot(days_back), raw_days)
        /\ UNCHANGED <<now, dataVars, sampleVars, jobs, inflight, auditVars, influenceVars>>

\* a trigger that computes the snapshot itself before it answers
TriggerAndCompute(raw_days) ==
    /\ create_snapshot(ClampDaysBack(raw_days))
    /\ snapResp' = [kind |-> "scheduled", days_back |-> raw_days, at |-> now]
    /\ UNCHANGED <<now, dataVars, sampleVars, jobs, inflight, auditVars, influenceVars>>

\* POST snapshot?days_back: background_tasks.add_task(...), then the acknowledgment
TriggerSnapshot(raw_days) ==
    /\ Len(jobs) < MaxJobs
    /\ jobs' = Append(jobs, raw_days)
    /\ snapResp' = [kind |-> "scheduled", days_back |-> raw_days, at |-> now]
    /\ UNCHANGED <<now, dataVars, sampleVars, snapshots, next_id, inflight, auditVars, influenceVars>>

\* enqueue_snapshot(days_back)
enqueue_snapshot(raw_days) == create_snapshot(ClampDaysBack(raw_days))

\* the background task: refresh_bias_snapshot(days_back) in a session of its own
RunSnapshotJob ==
    /\ \E k \in 1..Len(jobs) :
          /\ enqueue_snapshot(jobs[k])
          /\ jobs' = SubSeq(jobs, 1, k - 1) \o SubSeq(jobs, k + 1, Len(jobs))
    /\ UNCHANGED <<now, dataVars, sampleVars, inflight, snapResp, auditVars, influenceVars>>

\* the clock advances by half a refresh period, or by one hour more than a whole one
SnapTick(last) ==
    /\ \E step \in {SNAPSHOT_REFRESH_HOURS \div 2, SNAPSHOT_REFRESH_HOURS + 1} :
          /\ now + step <= last
          /\ now' = now + step
    /\ UNCHANGED <<dataVars, sampleVars, snapVars, next_id, auditVars, influenceVars>>

SnapshotDays == {0, 7}

SnapshotInit ==
    /\ now = 0
    /\ applications = <<>>
    /\ bias_reviews = <<>>
    /\ sample = NoResponse
    /\ prevSample = NoResponse
    /\ snapshots = <<>>
    /\ next_id = 0
    /\ jobs = <<>>
    /\ inflight = [r \in 1..MaxRequests |-> [pc |-> "idle"]]
    /\ snapResp = NoResponse
    /\ NoInfluenceData
    /\ NoAuditData

SnapshotNext ==
    \/ \E raw_days \in SnapshotDays : GetOrCreateSnapshot(raw_days)
    \/ \E raw_days \in SnapshotDays : TriggerSnapshot(raw_days)
    \/ RunSnapshotJob
    \/ SnapTick(MaxSnapClock)

\* requests served one after the other
SnapshotSpec == SnapshotInit /\ [][SnapshotNext]_vars

\* get_or_create_snapshot up to its query: the cutoff is taken first
BeginGetOrCreate(r, raw_days) ==
    /\ inflight[r].pc = "idle"
    /\ \E found \in QueryResults(ClampDaysBack(raw_days)) :
          inflight' = [inflight EXCEPT ![r] =
              [pc |-> "queried", raw_days |-> raw_days, days_back |-> ClampDaysBack(raw_days),
               freshness_cutoff |-> now - SNAPSHOT_REFRESH_HOURS, found |-> found]]
    /\ UNCHANGED <<now, dataVars, sampleVars, snapshots, next_id, jobs, snapResp, auditVars, influenceVars>>

\* get_or_create_snapshot from the freshness test on
FinishGetOrCreate(r) ==
    /\ inflight[r].pc = "queried"
    /\ \/ /\ CacheHit(inflight[r].found, inflight[r].freshness_cutoff)
          /\ snapResp' = serialize_snapshot(inflight[r].found[1], inflight[r].raw_days)
          /\ UNCHANGED <<snapshots, next_id>>
       \/ /\ ~CacheHit(inflight[r].found, inflight[r].freshness_cutoff)
          /\ create_snapshot(inflight[r].days_back)
          /\ snapResp' = serialize_snapshot(NewSnapshot(inflight[r].days_back), inflight[r].raw_days)
    /\ inflight' = [inflight EXCEPT ![r] = [pc |-> "idle"]]
    /\ UNCHANGED <<now, dataVars, sampleVars, jobs, auditVars, influenceVars>>

SnapshotConcNext ==
    \/ \E r \in 1..MaxRequests, raw_days \in SnapshotDays : BeginGetOrCreate(r, raw_days)
    \/ \E r \in 1..MaxRequests : FinishGetOrCreate(r)
    \/ \E raw_days \in SnapshotDays : TriggerSnapshot(raw_days)
    \/ RunSnapshotJob
    \/ SnapTick(MaxConcClock)

\* requests of separate sessions interleaved
SnapshotConcSpec == SnapshotInit /\ [][SnapshotConcNext]_vars

(***************************************************************************)
(* Claims about the snapshot cache                                         *)
(***************************************************************************)
SnapshotsOfWindow(w) == {i \in 1..Len(snapshots) : snapshots[i].window_days = w}

\* generated_at of the latest snapshot of a window that has one
LatestGeneratedAt(w) ==
    LET i == CHOOSE k \in SnapshotsOfWindow(w) :
                \A j \in SnapshotsOfWindow(w) :
                    snapshots[j].generated_at <= snapshots[k].generated_at
    IN  snapshots[i].generated_at

\* this step answers a get_or_create_snapshot request
AnswersGetOrCreate == snapResp' # snapResp /\ snapResp'.kind = "snapshot"

ReturnsCached(w) ==
    /\ snapshots' = snapshots
    /\ \E i \in SnapshotsOfWindow(w) :
          /\ snapshots[i].generated_at = LatestGeneratedAt(w)
          /\ snapResp'.snapshot_id = snapshots[i].id

InsertsOne(w) ==
    /\ Len(snapshots') = Len(snapshots) + 1
    /\ SubSeq(snapshots', 1, Len(snapshots)) = snapshots
    /\ snapshots'[Len(snapshots')].window_days = w
    /\ snapshots'[Len(snapshots')].generated_at = now
    /\ snapResp'.snapshot_id = snapshots'[Len(snapshots')].id
    /\ \A i \in 1..Len(snapshots) : snapshots[i].id # snapResp'.snapshot_id

\* C3: get_or_create_snapshot(w) returns the id of the latest snapshot of
\* window w and inserts nothing when that snapshot is less than 12 hours old;
\* it inserts exactly one snapshot of window w and returns its new id when w
\* has no snapshot or its latest is more than 12 hours old; snapshots of other
\* windows play no part.
C3_SnapshotFreshness ==
    [][AnswersGetOrCreate =>
          LET w == ClampDaysBack(snapResp'.days_back)
          IN  /\ (SnapshotsOfWindow(w) # {} /\ now - LatestGeneratedAt(w) < 12)
                    => ReturnsCached(w)
              /\ (SnapshotsOfWindow(w) = {} \/ now - LatestGeneratedAt(w) > 12)
                    => InsertsOne(w)]_vars

\* a request answered with an older snapshot of its window while a later
\* snapshot of another window is stored
C3_Witness ==
    /\ snapResp.kind = "snapshot"
    /\ snapResp.generated_at < snapResp.at
    /\ snapResp.window_days = ClampDaysBack(snapResp.days_back)
    /\ \E i \in 1..Len(snapshots) :
          /\ snapshots[i].window_days # snapResp.window_days
          /\ snapshots[i].generated_at > snapResp.generated_at
          /\ snapshots[i].generated_at <= snapResp.at

\* C4: for every window_days value no two snapshots are computed and persisted
\* within one 12-hour freshness window, whatever the interleaving of
\* get_or_create_snapshot requests and snapshot triggers.
C4_OneSnapshotPerFreshnessWindow ==
    \A i, j \in 1..Len(snapshots) :
        (i < j /\ snapshots[i].window_days = snapshots[j].window_days)
            => snapshots[j].generated_at - snapshots[i].generated_at >= SNAPSHOT_REFRESH_HOURS

(***************************************************************************)
(* Senior-officer audit workflow (routes/review_audit.py,                  *)
(* routes/applications.py, services/review_flags.py)                       *)
(*                                                                         *)
(* A string a client sends is a record [text, upper]: text is the string   *)
(* with every letter in lower case, upper tells whether the string holds   *)
(* an upper-case letter.  The empty string and an absent key are both the  *)
(* falsy value Missing.  A note is a tuple of its parts.                   *)
(***************************************************************************)
MaxAuditSteps == 2   \* decisions recorded plus status changes through update_application

Str(text, upper) == [text |-> text, upper |-> upper]
Missing == Str("", FALSE)
Truthy(s) == s.text # ""

\* a handler that looks the decision up as the client wrote it
KeepCase(s) == s

\* str.lower()
Lower(s) == [s EXCEPT !.upper = FALSE]

ALLOWED_DECISIONS ==
    {"clear_to_proceed", "request_clarification", "request_additional_docs",
     "issue_conditional_approval", "escalate_to_policy", "escalate_to_security",
     "overturn_flag", "refer_for_training"}

DECISION_NORMALIZATION ==
    [clear_to_proceed |-> "clear_to_proceed",
     validated |-> "clear_to_proceed",
     request_clarification |-> "request_clarification",
     request_additional_docs |-> "request_additional_docs",
     request_more_docs |-> "request_additional_docs",
     issue_conditional_approval |-> "issue_conditional_approval",
     escalate_to_policy |-> "escalate_to_policy",
     escalated |-> "escalate_to_policy",
     escalate_policy |-> "escalate_to_policy",
     escalate_to_security |-> "escalate_to_security",
     escalate_security |-> "escalate_to_security",
     overturn_flag |-> "overturn_flag",
     overturned |-> "overturn_flag",
     refer_for_training |-> "refer_for_training",
     training_needed |-> "refer_for_training"]

\* dict.get(key) for a string key: None unless the exact key is present
DictGet(table, key) ==
    IF ~key.upper /\ key.text \in DOMAIN table THEN table[key.text] ELSE NoneVal

\* the status of an application that waits for a senior audit
FLAG_AUDITED_STATUS == "flagged_for_review"

DOCUMENT_REQUIREMENTS ==
    [tourist |-> {"passport", "photo", "bank_statement"},
     business |-> {"passport", "photo", "invitation_letter"},
     student |-> {"passport", "photo", "invitation_letter", "bank_statement"},
     work |-> {"passport", "photo", "employment_letter", "invitation_letter"},
     family_visit |-> {"passport", "photo", "invitation_letter"},
     transit |-> {"passport", "photo", "flight_itinerary"}]

\* the officers table after seeding
officers == {"maria.schmidt", "john.davis", "admin"}

\* decision codes in ascending order of code
DecisionCodes ==
    <<"clear_to_proceed", "escalate_to_policy", "escalate_to_security",
      "issue_conditional_approval", "overturn_flag", "refer_for_training",
      "request_additional_docs", "request_clarification">>

\* a rule of the seed that never asks for a follow-up
RuleWithoutFollowUp(category, decision) ==
    [flag_category |-> category, decision |-> decision, requires_follow_up |-> FALSE]

Rule(category, decision) ==
    [flag_category |-> category, decision |-> decision,
     requires_follow_up |-> (decision = "request_additional_docs")]

compatibility_seed ==
    {Rule("document_gap", d) : d \in {"clear_to_proceed", "request_clarification",
        "request_additional_docs", "issue_conditional_approval", "overturn_flag",
        "refer_for_training"}}
    \cup {Rule("identity_mismatch", d) : d \in {"clear_to_proceed",
        "request_additional_docs", "request_clarification", "escalate_to_policy",
        "escalate_to_security", "overturn_flag", "refer_for_training"}}
    \cup {Rule("document_authenticity", d) : d \in {"clear_to_proceed",
        "request_additional_docs", "escalate_to_policy", "escalate_to_security"}}
    \cup {Rule("financial_concern", d) : d \in {"clear_to_proceed",
        "request_clarification", "request_additional_docs",
        "issue_conditional_approval", "escalate_to_policy", "refer_for_training"}}
    \cup {Rule("travel_intent_risk", d) : d \in {"clear_to_proceed",
        "request_clarification", "request_additional_docs",
        "issue_conditional_approval", "escalate_to_policy", "overturn_flag",
        "refer_for_training"}}
    \cup {Rule("compliance_alert", d) : d \in {"clear_to_proceed",
        "escalate_to_policy", "escalate_to_security", "overturn_flag"}}

(***************************************************************************)
(* The flag/decision catalog and its seeding                               *)
(***************************************************************************)
MaxSeedRuns == 2   \* runs of seed_flag_catalog in a row

categories_seed ==
    <<[code |-> "document_gap", label |-> "Document Gap"],
      [code |-> "identity_mismatch", label |-> "Identity Mismatch"],
      [code |-> "document_authenticity", label |-> "Document Authenticity"],
      [code |-> "financial_concern", label |-> "Financial Concern"],
      [code |-> "travel_intent_risk", label |-> "Travel Intent Risk"],
      [code |-> "compliance_alert", label |-> "Compliance Alert"]>>

decisions_seed ==
    <<[code |-> "clear_to_proceed", label |-> "Clear to Proceed", severity |-> "low"],
      [code |-> "request_clarification", label |-> "Request Clarification",
       severity |-> "medium"],
      [code |-> "request_additional_docs", label |-> "Request Additional Documents",
       severity |-> "medium"],
      [code |-> "issue_conditional_approval", label |-> "Issue Conditional Approval",
       severity |-> "medium"],
      [code |-> "escalate_to_policy", label |-> "Escalate to Policy", severity |-> "high"],
      [code |-> "escalate_to_security", label |-> "Escalate to Security & Compliance",
       severity |-> "critical"],
      [code |-> "overturn_flag", label |-> "Overturn Flag", severity |-> "low"],
      [code |-> "refer_for_training", label |-> "Refer for Training", severity |-> "low"]>>

RulesFor(category, decisions) ==
    [i \in 1..Len(decisions) |-> Rule(category, decisions[i])]

\* compatibility_seed.items(): the rules of the seed in the order it lists them
compatibility_items ==
    RulesFor("document_gap",
        <<"clear_to_proceed", "request_clarification", "request_additional_docs",
          "issue_conditional_approval", "overturn_flag", "refer_for_training">>)
    \o RulesFor("identity_mismatch",
        <<"clear_to_proceed", "request_additional_docs", "request_clarification",
          "escalate_to_policy", "escalate_to_security", "overturn_flag",
          "refer_for_training">>)
    \o RulesFor("document_authenticity",
        <<"clear_to_proceed", "request_additional_docs", "escalate_to_policy",
          "escalate_to_security">>)
    \o RulesFor("financial_concern",
        <<"clear_to_proceed", "request_clarification", "request_additional_docs",
          "issue_conditional_approval", "escalate_to_policy", "refer_for_training">>)
    \o RulesFor("travel_intent_risk",
        <<"clear_to_proceed", "request_clarification", "request_additional_docs",
          "issue_conditional_approval", "escalate_to_policy", "overturn_flag",
          "refer_for_training">>)
    \o RulesFor("compliance_alert",
        <<"clear_to_proceed", "escalate_to_policy", "escalate_to_security",
          "overturn_flag">>)

\* the id an autoincrement column gives the next row of a table
NextRowId(ids) == IF ids = {} THEN 1 ELSE 1 + CHOOSE n \in ids : \A k \in ids : k <= n

RECURSIVE UpsertCatalog(_, _, _)
\* one of the two catalog loops: a stored row with the entry's code takes the
\* entry's fields, and an entry without a stored row is inserted
UpsertCatalog(table, seed, i) ==
    IF i > Len(seed) THEN table
    ELSE LET entry == seed[i]
             found == \E k \in 1..Len(table) : table[k].code = entry.code
             updated == [k \in 1..Len(table) |->
                            IF table[k].code = entry.code
                            THEN [f \in DOMAIN table[k] |->
                                     IF f \in DOMAIN entry THEN entry[f] ELSE table[k][f]]
                            ELSE table[k]]
             inserted == Append(table,
                            [id |-> NextRowId({table[k].id : k \in 1..Len(table)})] @@ entry)
         IN  UpsertCatalog(IF found THEN updated ELSE inserted, seed, i + 1)

\* (rule.flag_category.code, rule.decision_category.code)
RuleKey(rule) == <<rule.flag_category, rule.decision>>

\* the rule query: the rules that join a stored category and a stored decision
ExistingRules(categories, decisions, rules) ==
    {r \in rules :
        /\ \E k \in 1..Len(categories) : categories[k].code = r.flag_category
        /\ \E k \in 1..Len(decisions) : decisions[k].code = r.decision}

SeedKeys == {RuleKey(s) : s \in compatibility_seed}

\* a seeding that deletes no rule
NothingStale(existing_rules) == {}

\* the stored rules the seed does not list: they are deleted
StaleRules(existing_rules) == {r \in existing_rules : RuleKey(r) \notin SeedKeys}

\* a seeding that inserts every rule of the seed
EverythingPending(existing_rules) == compatibility_seed

\* pending_rules after the loop over the stored rules
PendingRules(existing_rules) ==
    {s \in compatibility_seed : \A r \in existing_rules : RuleKey(r) # RuleKey(s)}

seed_flag_catalog(catalog) ==
    LET categories == UpsertCatalog(catalog.flag_categories, categories_seed, 1)
        decisions == UpsertCatalog(catalog.decision_categories, decisions_seed, 1)
        existing_rules == ExistingRules(categories, decisions, catalog.flag_decision_rules)
        kept == existing_rules \ StaleRules(existing_rules)
        updated == {IF RuleKey(r) \in SeedKeys
                    THEN [r EXCEPT !.requires_follow_up =
                             (CHOOSE s \in compatibility_seed :
                                 RuleKey(s) = RuleKey(r)).requires_follow_up]
                    ELSE r : r \in kept}
        pending_rules == PendingRules(existing_rules)
        pending == SelectSeq(compatibility_items,
                       LAMBDA s : /\ s \in pending_rules
                                  /\ \E k \in 1..Len(categories) :
                                        categories[k].code = s.flag_category
                                  /\ \E k \in 1..Len(decisions) :
                                        decisions[k].code = s.decision)
        first_id == NextRowId({r.id : r \in catalog.flag_decision_rules})
        inserted == {[id |-> first_id + i - 1] @@ pending[i] : i \in 1..Len(pending)}
    IN  [flag_categories |-> categories,
         decision_categories |-> decisions,
         flag_decision_rules |->
             (catalog.flag_decision_rules \ existing_rules) \cup updated \cup inserted]

EmptyCatalog ==
    [flag_categories |-> <<>>, decision_categories |-> <<>>, flag_decision_rules |-> {}]

\* the catalog seed_demo_data leaves in a new database
SeededCatalog == seed_flag_catalog(EmptyCatalog)

\* a matrix that lists every decision under every category
MatrixOfAllDecisions(category) ==
    [i \in 1..Len(DecisionCodes) |->
        [code |-> DecisionCodes[i], requiresFollowUp |-> FALSE]]

\* the matrix of get_flag_catalog: per category the rules that join a stored
\* category and a stored decision, sorted by code
DecisionMatrix(category) ==
    LET stored_decisions == {decision_categories[i].code : i \in 1..Len(decision_categories)}
        rules == IF \E i \in 1..Len(flag_categories) : flag_categories[i].code = category
                 THEN {r \in flag_decision_rules :
                          r.flag_category = category /\ r.decision \in stored_decisions}
                 ELSE {}
        allowed(d) == \E r \in rules : r.decision = d
        codes == SelectSeq(DecisionCodes, allowed)
    IN  [i \in 1..Len(codes) |->
            [code |-> codes[i],
             requiresFollowUp |->
                 (CHOOSE r \in rules : r.decision = codes[i]).requires_follow_up]]

\* a query's first(): the empty tuple when no row matches, else the row in a tuple
ReviewById(review_id) ==
    LET hits == SelectSeq(bias_reviews, LAMBDA r : r.id = review_id)
    IN  IF hits = <<>> THEN <<>> ELSE <<hits[1]>>

ApplicationById(application_id) ==
    LET hits == SelectSeq(applications, LAMBDA a : a.id = application_id)
    IN  IF hits = <<>> THEN <<>> ELSE <<hits[1]>>

\* review.flags and review.audits
ReviewFlags(review_id) ==
    SelectSeq(flagged_documents, LAMBDA f : f.bias_review_id = review_id)
ReviewAudits(review_id) ==
    SelectSeq(review_audits, LAMBDA a : a.bias_review_id = review_id)

check_document_requirements(application_id, visa_type) ==
    LET mandatory == IF visa_type \in DOMAIN DOCUMENT_REQUIREMENTS
                     THEN DOCUMENT_REQUIREMENTS[visa_type] ELSE {}
        uploaded_types == {documents[i].type : i \in
                              {j \in 1..Len(documents) :
                                  /\ documents[j].application_id = application_id
                                  /\ documents[j].verified}}
        mandatory_missing == mandatory \ uploaded_types
    IN  [mandatory_missing |-> mandatory_missing,
         requirements_met |-> (mandatory_missing = {})]

determine_application_status(application_id, visa_type) ==
    LET doc_status == check_document_requirements(application_id, visa_type)
        app == ApplicationById(application_id)
    IN  IF app = <<>> THEN "submitted"
        ELSE IF app[1].status = "submitted" /\ ~doc_status.requirements_met
             THEN "document_collection"
        ELSE IF app[1].status \in {"submitted", "document_collection"}
                  /\ doc_status.requirements_met
             THEN "document_review"
        ELSE app[1].status

\* the requests that have written: decisions recorded, status changes made
\* through update_application (the StatusUpdate rows without a note) and
\* reviews that found bias (the bias_review rows)
WritesSoFar ==
    Len(review_audits)
    + Cardinality({i \in 1..Len(status_updates) :
          status_updates[i].notes = <<>> \/ status_updates[i].status = "bias_review"})

HTTPException(status_code, detail) ==
    [kind |-> "error", status_code |-> status_code, detail |-> detail]

StatusUpdateRow(id, application_id, status, notes, officer_id) ==
    [id |-> id, application_id |-> application_id, status |-> status,
     notes |-> notes, officer_id |-> officer_id, timestamp |-> now]

\* the decisions a flag's category allows; every decision when it has no rule
AllowedEntries(flag) ==
    LET flag_type == IF flag.flag_type = NoneVal THEN "document_gap" ELSE flag.flag_type
        matrix_entries == DecisionMatrix(flag_type)
    IN  IF matrix_entries # <<>> THEN matrix_entries
        ELSE [i \in 1..Len(DecisionCodes) |->
                 [code |-> DecisionCodes[i], requiresFollowUp |-> FALSE]]

serialize_review_with_context(review, application, audits, flags) ==
    [review |-> [id |-> review.id, audit_status |-> review.audit_status],
     application |-> [id |-> review.application_id,
                      status |-> IF application = <<>> THEN NoneVal
                                 ELSE application[1].status],
     audits |-> [i \in 1..Len(audits) |->
                    [id |-> audits[i].id, auditor_id |-> audits[i].auditor_id,
                     decision |-> audits[i].decision]],
     flags |-> [i \in 1..Len(flags) |->
                   [id |-> flags[i].id,
                    flag_type |-> IF flags[i].flag_type = NoneVal THEN "document_gap"
                                  ELSE flags[i].flag_type,
                    resolved |-> flags[i].resolved,
                    allowed_decisions |->
                        LET allowed_entries == AllowedEntries(flags[i])
                        IN  [k \in 1..Len(allowed_entries) |-> allowed_entries[k].code]]]]

\* payload.get("decision_code") or payload.get("decision")
RawDecision(payload) ==
    IF Truthy(payload.decision_code) THEN payload.decision_code ELSE payload.decision

NormalizeDecision(raw_decision) == DictGet(DECISION_NORMALIZATION, Lower(raw_decision))

\* a lookup that takes any officer id for an existing officer
AnyAuditorAccepted(auditor_id) == TRUE

auditor_exists(auditor_id) == auditor_id \in officers

\* the four checks made before the first write, in their order
ValidateDecision(review_id, payload) ==
    IF ReviewById(review_id) = <<>>
    THEN HTTPException(404, "Bias review not found")
    ELSE IF ~Truthy(RawDecision(payload))
    THEN HTTPException(400, "Decision value is required")
    ELSE IF NormalizeDecision(RawDecision(payload)) \notin ALLOWED_DECISIONS
    THEN HTTPException(400, "Invalid decision value")
    ELSE IF ~auditor_exists(payload.auditor_id)
    THEN HTTPException(404, "Auditing officer not found")
    ELSE [kind |-> "accepted", status_code |-> 200, detail |-> ""]

\* a handler that keeps the status of a review an earlier decision closed
KeepClosedReview(review, decision) ==
    IF review.audit_status = "pending"
    THEN [review EXCEPT !.audit_status = decision, !.updated_at = now]
    ELSE [review EXCEPT !.updated_at = now]

ReviewAfterDecision(review, decision) ==
    [review EXCEPT !.audit_status = decision, !.updated_at = now]

\* a handler that notes an overturned review and no escalation
OverturnOnlyStatus(decision) ==
    IF decision = "overturn_flag" THEN "audit_overturned" ELSE NoneVal

EscalationStatus(decision) ==
    CASE decision = "overturn_flag" -> "audit_overturned"
      [] decision = "escalate_to_policy" -> "audit_escalated_policy"
      [] decision = "escalate_to_security" -> "audit_escalated_security"
      [] OTHER -> NoneVal

EscalationNote(decision) ==
    CASE decision = "overturn_flag" ->
            <<"Senior officer overturned the bias review. Re-open application.">>
      [] decision = "escalate_to_policy" ->
            <<"Senior officer escalated the bias review for policy follow-up.">>
      [] decision = "escalate_to_security" ->
            <<"Senior officer escalated the bias review to security & compliance.">>
      [] OTHER -> <<>>

\* a handler that notes the flagged status on every decision
AlwaysNotesFlagged(application) == TRUE

NeedsFlaggedStatus(application) == application.status # FLAG_AUDITED_STATUS

\* the status the second part of the handler moves the application to, and
\* the note it records; NoneVal when it leaves the application alone
StatusAfterAudit(review, application, decision) ==
    LET active_flags == SelectSeq(ReviewFlags(review.id), LAMBDA f : ~f.resolved)
        next_status == determine_application_status(application.id, application.visa_type)
    IN  IF active_flags # <<>>
        THEN IF NeedsFlaggedStatus(application)
             THEN [status |-> FLAG_AUDITED_STATUS,
                   notes |-> <<"Senior audit decision recorded: ", decision>>]
             ELSE [status |-> NoneVal, notes |-> <<>>]
        ELSE IF next_status # "" /\ application.status # next_status
             THEN [status |-> next_status,
                   notes |-> <<"Application status updated after audit: ", next_status>>]
             ELSE [status |-> NoneVal, notes |-> <<>>]

ReplaceRow(table, row) ==
    [i \in 1..Len(table) |-> IF table[i].id = row.id THEN row ELSE table[i]]

\* POST /{review_id}/decision
SubmitDecision(review_id, payload) ==
    LET outcome == ValidateDecision(review_id, payload)
    IN  IF outcome.kind = "error"
        THEN /\ auditResp' = outcome
             /\ UNCHANGED <<now, dataVars, sampleVars, snapVars, influenceVars, next_id, documents,
                            flagged_documents, review_audits, status_updates,
                            catalogVars>>
        ELSE
          LET review == ReviewById(review_id)[1]
              decision == NormalizeDecision(RawDecision(payload))
              auditor_id == payload.auditor_id
              audit_record == [id |-> next_id + 1, bias_review_id |-> review_id,
                               auditor_id |-> auditor_id, decision |-> decision,
                               created_at |-> now]
              escalation ==
                  IF EscalationStatus(decision) = NoneVal THEN <<>>
                  ELSE <<StatusUpdateRow(next_id + 2, review.application_id,
                                         EscalationStatus(decision),
                                         EscalationNote(decision), auditor_id)>>
              first_id == next_id + 1 + Len(escalation)
              new_review == ReviewAfterDecision(review, decision)
              application == ApplicationById(review.application_id)
              change == IF application = <<>> THEN [status |-> NoneVal, notes |-> <<>>]
                        ELSE StatusAfterAudit(review, application[1], decision)
              changed == change.status # NoneVal
              transition ==
                  IF changed
                  THEN <<StatusUpdateRow(first_id + 1, application[1].id, change.status,
                                         change.notes, auditor_id)>>
                  ELSE <<>>
              new_application ==
                  IF changed
                  THEN <<[application[1] EXCEPT !.status = change.status,
                                                 !.updated_at = now]>>
                  ELSE application
          IN  /\ WritesSoFar < MaxAuditSteps
              /\ review_audits' = Append(review_audits, audit_record)
              /\ bias_reviews' = ReplaceRow(bias_reviews, new_review)
              /\ status_updates' = status_updates \o escalation \o transition
              /\ applications' = IF changed
                                 THEN ReplaceRow(applications, new_application[1])
                                 ELSE applications
              /\ next_id' = first_id + Len(transition)
              /\ auditResp' =
                    [kind |-> "decision", status_code |-> 200,
                     message |-> "Audit decision recorded",
                     review |-> serialize_review_with_context(
                                    new_review, new_application,
                                    Append(ReviewAudits(review_id), audit_record),
                                    ReviewFlags(review_id))]
              /\ UNCHANGED <<now, sampleVars, snapVars, influenceVars, documents, flagged_documents,
                             catalogVars>>

\* PUT /applications/{application_id}
UpdateApplication(application_id, update) ==
    LET app == ApplicationById(application_id)
    IN  IF app = <<>>
        THEN /\ auditResp' = HTTPException(404, "Application not found")
             /\ UNCHANGED <<now, dataVars, sampleVars, snapVars, influenceVars, next_id, documents,
                            flagged_documents, review_audits, status_updates,
                            catalogVars>>
        ELSE
          LET doc_status == check_document_requirements(application_id, app[1].visa_type)
          IN  IF /\ update.status # ""
                 /\ ~doc_status.requirements_met
                 /\ update.status \notin {"document_collection", "rejected"}
              THEN /\ auditResp' = HTTPException(400, "required documents not uploaded")
                   /\ UNCHANGED <<now, dataVars, sampleVars, snapVars, influenceVars, next_id, documents,
                                  flagged_documents, review_audits, status_updates,
                                  catalogVars>>
              ELSE
                LET with_status ==
                        IF update.status # ""
                        THEN [app[1] EXCEPT !.status = update.status, !.updated_at = now]
                        ELSE app[1]
                    new_app ==
                        IF update.officer_id # NoneVal
                        THEN [with_status EXCEPT !.assigned_officer_id = update.officer_id]
                        ELSE with_status
                    record ==
                        IF update.status # ""
                        THEN <<StatusUpdateRow(next_id + 1, application_id, update.status,
                                               <<>>, update.officer_id)>>
                        ELSE <<>>
                IN  /\ WritesSoFar < MaxAuditSteps
                    /\ applications' = ReplaceRow(applications, new_app)
                    /\ status_updates' = status_updates \o record
                    /\ next_id' = next_id + Len(record)
                    /\ auditResp' = [kind |-> "application", status_code |-> 200,
                                     id |-> application_id, status |-> new_app.status]
                    /\ UNCHANGED <<now, bias_reviews, sampleVars, snapVars, influenceVars, documents,
                                   flagged_documents, review_audits, catalogVars>>

\* None in a column that holds the id of a row
NoId == 0

\* a synchronisation that drops every review left without an active flag
WithoutActiveFlags(review, active_flags) == active_flags = <<>>

\* "not active_flags and not review.audits": the review nothing refers to
IsOrphanReview(review, active_flags) ==
    active_flags = <<>> /\ ReviewAudits(review.id) = <<>>

\* db.delete(review): the row goes, and with it the audits of the review
\* (the relationship audits cascades "all, delete-orphan")
DeleteReviewFrom(reviews, review) ==
    [bias_reviews |-> SelectSeq(reviews, LAMBDA r : r.id # review.id),
     review_audits |-> SelectSeq(review_audits, LAMBDA a : a.bias_review_id # review.id)]

DeleteReview(review) == DeleteReviewFrom(bias_reviews, review)

\* a synchronisation that deletes the review and leaves the flags pointing at it
KeepReviewIds(flags, application_id) == flags

\* for doc_flag in document_flags: doc_flag.bias_review_id = None
ClearReviewIds(flags, application_id) ==
    [i \in 1..Len(flags) |->
        IF flags[i].application_id = application_id
        THEN [flags[i] EXCEPT !.bias_review_id = NoId]
        ELSE flags[i]]

\* a synchronisation that leaves the audit status of the review as it finds it
kept_audit_status(review, active_flags) == review.audit_status

\* the audit status the if/elif at the end of sync_review_flags_for_application
\* leaves the review with
synced_audit_status(review, active_flags) ==
    IF active_flags # <<>> /\ review.audit_status # "pending" THEN "pending"
    ELSE IF active_flags = <<>> /\ review.audit_status \in {NoneVal, "", "pending"}
    THEN "clear_to_proceed"
    ELSE review.audit_status

\* the body of sync_review_flags_for_application once its first query has given
\* review (<<>> for none), on the flags and reviews tables it is handed: the tables
\* it leaves
sync_review_flags(review, application_id, flags, reviews) ==
    LET mine(f) == f.application_id = application_id
        active_flags == SelectSeq(flags, LAMBDA f : mine(f) /\ ~f.resolved)
        ReplaceReview(row) ==
            [i \in 1..Len(reviews) |-> IF reviews[i].id = row.id THEN row ELSE reviews[i]]
    IN  IF review = <<>>
        THEN [flagged_documents |-> flags, bias_reviews |-> reviews,
              review_audits |-> review_audits]
        ELSE IF IsOrphanReview(review[1], active_flags)
        THEN [flagged_documents |-> ClearReviewIds(flags, application_id),
              bias_reviews |-> DeleteReviewFrom(reviews, review[1]).bias_reviews,
              review_audits |-> DeleteReviewFrom(reviews, review[1]).review_audits]
        ELSE [flagged_documents |->
                  [i \in 1..Len(flags) |->
                      IF mine(flags[i])
                      THEN [flags[i] EXCEPT
                               !.bias_review_id = review[1].id,
                               !.flag_type = IF @ = NoneVal THEN "document_gap" ELSE @]
                      ELSE flags[i]],
              review_audits |-> review_audits,
              bias_reviews |->
                  IF synced_audit_status(review[1], active_flags) # review[1].audit_status
                  THEN ReplaceReview(
                           [review[1] EXCEPT
                               !.audit_status = synced_audit_status(review[1], active_flags),
                               !.updated_at = now])
                  ELSE reviews]

\* sync_review_flags_for_application on the flags table it is handed: the
\* tables it leaves
sync_review_flags_for_application(application_id, flags) ==
    sync_review_flags(LatestReview(application_id), application_id, flags, bias_reviews)

\* a flag is marked resolved, and the application's review is synchronised
\* with its flags; the application itself is left as it is
ResolveFlag(flag_id) ==
    \E i \in 1..Len(flagged_documents) :
        /\ flagged_documents[i].id = flag_id
        /\ ~flagged_documents[i].resolved
        /\ LET resolved == [flagged_documents EXCEPT ![i].resolved = TRUE]
               synced == sync_review_flags_for_application(
                             flagged_documents[i].application_id, resolved)
           IN  /\ flagged_documents' = synced.flagged_documents
               /\ bias_reviews' = synced.bias_reviews
               /\ review_audits' = synced.review_audits
               /\ auditResp' = [kind |-> "flag", status_code |-> 200, flag_id |-> flag_id,
                                resolved |-> TRUE]
        /\ UNCHANGED <<now, applications, sampleVars, snapVars, influenceVars, next_id, documents,
                       status_updates, catalogVars>>

\* POST /bias-review/review/{application_id}
SubmitBiasReview(application_id, review_data) ==
    LET app == ApplicationById(application_id)
        officer_id == review_data.officer_id
        existing_review == LatestReview(application_id)
        failure ==
            IF app = <<>> THEN HTTPException(404, "Application not found")
            ELSE IF app[1].status # "rejected"
            THEN HTTPException(400, "Can only review rejected applications")
            ELSE IF officer_id # NoneVal /\ ~auditor_exists(officer_id)
            THEN HTTPException(404, "Reviewing officer not found")
            ELSE [kind |-> "accepted", status_code |-> 200, detail |-> ""]
    IN  IF failure.kind = "error"
        THEN /\ auditResp' = failure
             /\ UNCHANGED <<now, dataVars, sampleVars, snapVars, influenceVars, next_id, documents,
                            flagged_documents, review_audits, status_updates,
                            catalogVars>>
        ELSE
          LET bias_review_record ==
                  IF existing_review # <<>>
                  THEN [existing_review[1] EXCEPT
                           !.result = review_data.result,
                           !.officer_id = IF officer_id # NoneVal THEN officer_id ELSE @,
                           !.reviewed_at = now,
                           !.audit_status = "pending",
                           !.updated_at = now]
                  ELSE [id |-> next_id + 1, application_id |-> application_id,
                        officer_id |-> officer_id, result |-> review_data.result,
                        audit_status |-> "pending", reviewed_at |-> now,
                        updated_at |-> now]
              created == IF existing_review # <<>> THEN 0 ELSE 1
              status_update ==
                  IF review_data.result = "biased"
                  THEN <<StatusUpdateRow(next_id + created + 1, application_id,
                             "bias_review",
                             <<"Potential bias detected in rejection: ", review_data.notes>>,
                             officer_id)>>
                  ELSE <<>>
          IN  /\ WritesSoFar < MaxAuditSteps
              /\ bias_reviews' = IF existing_review # <<>>
                                 THEN ReplaceRow(bias_reviews, bias_review_record)
                                 ELSE Append(bias_reviews, bias_review_record)
              /\ status_updates' = status_updates \o status_update
              /\ next_id' = next_id + created + Len(status_update)
              /\ auditResp' = [kind |-> "review", status_code |-> 200,
                               message |-> "Bias review submitted successfully",
                               review |-> [id |-> bias_review_record.id,
                                           result |-> bias_review_record.result,
                                           audit_status |-> bias_review_record.audit_status]]
              /\ UNCHANGED <<now, applications, sampleVars, snapVars, influenceVars, documents,
                             flagged_documents, review_audits, catalogVars>>

(***************************************************************************)
(* Runs of the audit workflow: one application as seed_demo_data leaves it *)
(***************************************************************************)
\* the verified flag of the three documents of a tourist application
DocumentProfiles ==
    {<<[type |-> "passport", verified |-> TRUE], [type |-> "photo", verified |-> TRUE],
       [type |-> "bank_statement", verified |-> TRUE]>>,
     <<[type |-> "passport", verified |-> TRUE], [type |-> "photo", verified |-> FALSE]>>}

FlagSpec(flag_type, resolved) == [flag_type |-> flag_type, resolved |-> resolved]

\* the flags of a demo application: none of them resolved
OpenFlagSpecs ==
    {<<FlagSpec("document_gap", FALSE)>>,
     <<FlagSpec("compliance_alert", FALSE)>>,
     <<FlagSpec("document_gap", FALSE), FlagSpec("compliance_alert", FALSE)>>}

\* the flags of a demo bias case: resolved or not
CaseFlagSpecs ==
    OpenFlagSpecs \cup
    {<<>>,
     <<FlagSpec("document_gap", TRUE)>>,
     <<FlagSpec("document_gap", TRUE), FlagSpec("compliance_alert", FALSE)>>}

SeedDocuments(profile) ==
    [i \in 1..Len(profile) |->
        [id |-> i, application_id |-> "app-1", type |-> profile[i].type,
         verified |-> profile[i].verified]]

SeedFlags(specs) ==
    [i \in 1..Len(specs) |->
        [id |-> 10 + i, application_id |-> "app-1", document_id |-> 1,
         flag_type |-> specs[i].flag_type, resolved |-> specs[i].resolved,
         bias_review_id |-> 21]]

SeedApplication(status) ==
    [id |-> "app-1", status |-> status, visa_type |-> "tourist",
     updated_at |-> now - HoursPerDay, submitted_at |-> now - 5 * HoursPerDay,
     assigned_officer_id |-> NoneVal]

\* a demo application with flags: flagged_for_review, a pending review, a note
DemoApplicationInit ==
    \E specs \in OpenFlagSpecs :
        /\ applications = <<SeedApplication(FLAG_AUDITED_STATUS)>>
        /\ flagged_documents = SeedFlags(specs)
        /\ bias_reviews = <<ReviewRow(21, "app-1", "uncertain", "pending", now - 2)>>
        /\ status_updates =
              <<[id |-> 31, application_id |-> "app-1", status |-> "flagged_for_review",
                 notes |-> <<"Application flagged for senior review.">>,
                 officer_id |-> "maria.schmidt", timestamp |-> now - HoursPerDay]>>

\* a demo bias case: a rejected application with a review and its flags
BiasCaseInit ==
    \E specs \in CaseFlagSpecs :
    \E audit_status \in IF specs = <<FlagSpec("document_gap", TRUE)>>
                        THEN {"pending", "clear_to_proceed"} ELSE {"pending"} :
        /\ applications = <<SeedApplication("rejected")>>
        /\ flagged_documents = SeedFlags(specs)
        /\ bias_reviews =
              <<ReviewRow(21, "app-1", "justified", audit_status, now - 2 * HoursPerDay)>>
        /\ status_updates = <<>>

AuditInit ==
    /\ now = SampleStart
    /\ \E profile \in DocumentProfiles : documents = SeedDocuments(profile)
    /\ DemoApplicationInit \/ BiasCaseInit
    /\ review_audits = <<>>
    /\ flag_categories = SeededCatalog.flag_categories
    /\ decision_categories = SeededCatalog.decision_categories
    /\ flag_decision_rules = SeededCatalog.flag_decision_rules
    /\ next_id = 31
    /\ auditResp = NoResponse
    /\ sample = NoResponse
    /\ prevSample = NoResponse
    /\ snapshots = <<>>
    /\ jobs = <<>>
    /\ inflight = <<>>
    /\ snapResp = NoResponse
    /\ NoInfluenceData

\* what clients send
DecisionInputs ==
    {Missing, Str("clear_to_proceed", FALSE), Str("validated", TRUE),
     Str("request_more_docs", FALSE), Str("overturn_flag", TRUE), Str("approve", FALSE)}
DecisionPayloads ==
    {[decision_code |-> d, decision |-> Missing, auditor_id |-> "maria.schmidt"] :
        d \in DecisionInputs}
    \cup {[decision_code |-> Str("validated", FALSE), decision |-> Missing,
           auditor_id |-> NoneVal]}
    \cup {[decision_code |-> Missing, decision |-> Str("escalated", FALSE),
           auditor_id |-> "maria.schmidt"],
          [decision_code |-> Str("overturned", FALSE), decision |-> Str("validated", FALSE),
           auditor_id |-> "maria.schmidt"],
          [decision_code |-> Missing, decision |-> Str("escalate_security", TRUE),
           auditor_id |-> "admin"],
          [decision_code |-> Str("pending", FALSE), decision |-> Str("validated", FALSE),
           auditor_id |-> "nobody"]}
DecisionRequests ==
    {[review_id |-> 21, payload |-> p] : p \in DecisionPayloads}
    \cup {[review_id |-> 99, payload |-> p] : p \in
             {q \in DecisionPayloads : q.decision_code = Str("validated", TRUE)}}
UpdateRequests ==
    {[application_id |-> "app-1", update |-> [status |-> s, officer_id |-> "john.davis"]] :
        s \in {"submitted", "rejected"}}
    \cup {[application_id |-> "app-9",
           update |-> [status |-> "submitted", officer_id |-> "john.davis"]]}

FlagIdInputs == {11, 12}

ReviewRequests ==
    {[application_id |-> "app-1",
      review_data |-> [result |-> r, notes |-> "n", officer_id |-> "john.davis"]] :
        r \in {"biased", "justified"}}
    \cup {[application_id |-> "app-1",
           review_data |-> [result |-> "biased", notes |-> "n", officer_id |-> "nobody"]],
          [application_id |-> "app-9",
           review_data |-> [result |-> "biased", notes |-> "n", officer_id |-> NoneVal]]}

AuditNext ==
    \/ \E request \in DecisionRequests :
          SubmitDecision(request.review_id, request.payload)
    \/ \E request \in UpdateRequests :
          UpdateApplication(request.application_id, request.update)
    \/ \E flag_id \in FlagIdInputs : ResolveFlag(flag_id)

AuditSpec == AuditInit /\ [][AuditNext]_vars

\* the audit workflow together with the reviewing officers' submissions
AuditTrailNext ==
    \/ AuditNext
    \/ \E request \in ReviewRequests :
          SubmitBiasReview(request.application_id, request.review_data)

AuditTrailSpec == AuditInit /\ [][AuditTrailNext]_vars

(***************************************************************************)
(* Claims about the decision endpoint                                      *)
(***************************************************************************)
\* the decision a payload carries, as the client wrote it
SentDecision(payload) ==
    IF payload.decision_code.text # "" THEN payload.decision_code ELSE payload.decision

NoSuchReview(request) ==
    \A i \in 1..Len(bias_reviews) : bias_reviews[i].id # request.review_id
NoDecisionValue(request) == SentDecision(request.payload).text = ""
UnrecognisedDecision(request) ==
    /\ SentDecision(request.payload).text # ""
    /\ SentDecision(request.payload).text \notin DOMAIN DECISION_NORMALIZATION
NoSuchAuditor(request) ==
    request.payload.auditor_id \notin {"maria.schmidt", "john.davis", "admin"}

Rejected(code) == auditResp'.kind = "error" /\ auditResp'.status_code = code
Succeeds == auditResp'.kind = "decision" /\ auditResp'.status_code = 200

\* C5: a decision request that names a nonexistent review (404), carries no
\* decision value (400), carries an unrecognised decision value (400) or names
\* a nonexistent auditor (404) is rejected with that code and leaves every
\* ReviewAudit, BiasReview, StatusUpdate and Application row as it was.
C5_RejectedBeforeAnyWrite ==
    [][\A request \in DecisionRequests :
          (/\ \/ NoSuchReview(request) \/ NoDecisionValue(request)
              \/ UnrecognisedDecision(request) \/ NoSuchAuditor(request)
           /\ SubmitDecision(request.review_id, request.payload)) =>
              /\ auditResp'.kind = "error"
              /\ UNCHANGED <<review_audits, bias_reviews, status_updates, applications>>
              /\ NoSuchReview(request) => Rejected(404)
              /\ (~NoSuchReview(request) /\ NoDecisionValue(request)) => Rejected(400)
              /\ (~NoSuchReview(request) /\ UnrecognisedDecision(request)) => Rejected(400)
              /\ (/\ ~NoSuchReview(request) /\ ~NoDecisionValue(request)
                  /\ ~UnrecognisedDecision(request) /\ NoSuchAuditor(request))
                    => Rejected(404)]_vars

\* a request turned away for its auditor after an earlier decision was recorded
C5_Witness ==
    /\ auditResp.kind = "error"
    /\ auditResp.status_code = 404
    /\ auditResp.detail = "Auditing officer not found"
    /\ review_audits # <<>>
    /\ bias_reviews[1].audit_status = review_audits[Len(review_audits)].decision

\* the code the synonym table gives the decision a request carries
CodeOf(request) == DECISION_NORMALIZATION[SentDecision(request.payload).text]

AddsOneAudit ==
    /\ Len(review_audits') = Len(review_audits) + 1
    /\ SubSeq(review_audits', 1, Len(review_audits)) = review_audits

\* C6: a successful decision request on review R adds exactly one ReviewAudit
\* row for R whose decision is the normalized decision code, and sets
\* R.audit_status to that same code, whatever R.audit_status was before.
C6_OneAuditAndStatus ==
    [][\A request \in DecisionRequests :
          (Succeeds /\ SubmitDecision(request.review_id, request.payload)) =>
              /\ AddsOneAudit
              /\ review_audits'[Len(review_audits')].bias_review_id = request.review_id
              /\ review_audits'[Len(review_audits')].decision = CodeOf(request)
              /\ \A i \in 1..Len(bias_reviews') :
                    bias_reviews'[i].id = request.review_id
                        => bias_reviews'[i].audit_status = CodeOf(request)
              /\ \A i \in 1..Len(bias_reviews') :
                    bias_reviews'[i].id # request.review_id
                        => bias_reviews'[i] = bias_reviews[i]]_vars

\* a second decision that replaced the status an earlier decision had set
C6_Witness ==
    /\ auditResp.kind = "decision"
    /\ Len(review_audits) = 2
    /\ review_audits[1].bias_review_id = review_audits[2].bias_review_id
    /\ review_audits[1].decision # review_audits[2].decision
    /\ \E i \in 1..Len(bias_reviews) :
          /\ bias_reviews[i].id = review_audits[2].bias_review_id
          /\ bias_reviews[i].audit_status = review_audits[2].decision

\* C7: the raw decision is lower-cased and mapped through the synonym table:
\* a request whose decision is a key of the table in any letter case is
\* recorded under the code the table gives; every stored ReviewAudit decision
\* is one of the 8 allowed codes; a decision that is no key of the table is
\* rejected with 400 and nothing is stored for it.
C7_NormalizedOrRejected ==
    [][/\ \A request \in DecisionRequests :
            (/\ ~NoSuchReview(request) /\ ~NoSuchAuditor(request)
             /\ SentDecision(request.payload).text \in DOMAIN DECISION_NORMALIZATION
             /\ SubmitDecision(request.review_id, request.payload)) =>
                /\ Succeeds
                /\ review_audits'[Len(review_audits')].decision = CodeOf(request)
       /\ \A request \in DecisionRequests :
            (/\ ~NoSuchReview(request) /\ UnrecognisedDecision(request)
             /\ SubmitDecision(request.review_id, request.payload)) =>
                /\ Rejected(400)
                /\ review_audits' = review_audits
                /\ bias_reviews' = bias_reviews
       /\ \A i \in 1..Len(review_audits') :
            review_audits'[i].decision \in
                {"clear_to_proceed", "request_clarification",
                 "request_additional_docs", "issue_conditional_approval",
                 "escalate_to_policy", "escalate_to_security",
                 "overturn_flag", "refer_for_training"}]_vars

\* two decisions stored under codes that clients sent only as synonyms,
\* followed by a request turned away for its decision value
C7_Witness ==
    /\ auditResp.kind = "error"
    /\ auditResp.detail = "Invalid decision value"
    /\ \E i \in 1..Len(review_audits) : review_audits[i].decision = "request_additional_docs"
    /\ \E i \in 1..Len(review_audits) : review_audits[i].decision = "escalate_to_policy"

\* the flags attached to the review a request names, and its application
FlagsOf(request) ==
    {flagged_documents[i] : i \in {j \in 1..Len(flagged_documents) :
        flagged_documents[j].bias_review_id = request.review_id}}
HasUnresolvedFlag(request) == \E f \in FlagsOf(request) : ~f.resolved
ParentIndex(request) ==
    CHOOSE k \in 1..Len(applications) :
        \E i \in 1..Len(bias_reviews) :
            /\ bias_reviews[i].id = request.review_id
            /\ bias_reviews[i].application_id = applications[k].id

\* the StatusUpdate rows a step appends
AppendsStatusUpdates ==
    /\ Len(status_updates') >= Len(status_updates)
    /\ SubSeq(status_updates', 1, Len(status_updates)) = status_updates
AddedWithStatus(status) ==
    {i \in (Len(status_updates) + 1)..Len(status_updates') :
        status_updates'[i].status = status}

C9_StaysFlagged ==
    [][\A request \in DecisionRequests :
          (/\ Succeeds
           /\ HasUnresolvedFlag(request)
           /\ SubmitDecision(request.review_id, request.payload)) =>
              /\ applications'[ParentIndex(request)].status = "flagged_for_review"
              /\ flagged_documents' = flagged_documents
              /\ AppendsStatusUpdates
              /\ Cardinality(AddedWithStatus("flagged_for_review")) =
                    IF applications[ParentIndex(request)].status = "flagged_for_review"
                    THEN 0 ELSE 1]_vars

\* two decisions on a review with an unresolved flag whose application was not
\* flagged at first: the first decision left the one note, the second none
C9_Witness ==
    /\ auditResp.kind = "decision"
    /\ Len(review_audits) = 2
    /\ auditResp.review.application.status = "flagged_for_review"
    /\ \E i \in 1..Len(auditResp.review.flags) : ~auditResp.review.flags[i].resolved
    /\ Cardinality({i \in 1..Len(status_updates) :
          /\ status_updates[i].status = "flagged_for_review"
          /\ status_updates[i].notes[1] = "Senior audit decision recorded: "}) = 1
    /\ \A i \in 1..Len(status_updates) :
          status_updates[i].notes # <<"Application flagged for senior review.">>

\* C10: for a review whose flags all belong to one category c, a request whose
\* decision d has no FlagDecisionRule (c, d) creates no ReviewAudit and does
\* not change the review's audit_status.
C10_MatrixRestrictsDecisions ==
    [][\A request \in DecisionRequests :
          (/\ auditResp'.kind # "application"
           /\ FlagsOf(request) # {}
           /\ SentDecision(request.payload).text \in DOMAIN DECISION_NORMALIZATION
           /\ \E c \in {f.flag_type : f \in FlagsOf(request)} :
                 /\ \A f \in FlagsOf(request) : f.flag_type = c
                 /\ \A r \in flag_decision_rules :
                       ~(r.flag_category = c /\ r.decision = CodeOf(request))
           /\ SubmitDecision(request.review_id, request.payload)) =>
              /\ review_audits' = review_audits
              /\ \A i \in 1..Len(bias_reviews) :
                    bias_reviews'[i].audit_status = bias_reviews[i].audit_status]_vars

\* the escalation notes a step appends
EscalationStatuses ==
    {"audit_overturned", "audit_escalated_policy", "audit_escalated_security"}
AddedEscalations ==
    {i \in (Len(status_updates) + 1)..Len(status_updates') :
        status_updates'[i].status \in EscalationStatuses}

\* C11: a successful decision appends exactly one escalation StatusUpdate to
\* the parent application when the normalized decision is overturn_flag
\* (audit_overturned), escalate_to_policy (audit_escalated_policy) or
\* escalate_to_security (audit_escalated_security), and none for the other
\* five decisions.
C11_OneEscalationNote ==
    [][\A request \in DecisionRequests :
          (Succeeds /\ SubmitDecision(request.review_id, request.payload)) =>
              /\ AppendsStatusUpdates
              /\ LET code == CodeOf(request)
                     expected ==
                         CASE code = "overturn_flag" -> "audit_overturned"
                           [] code = "escalate_to_policy" -> "audit_escalated_policy"
                           [] code = "escalate_to_security" -> "audit_escalated_security"
                           [] OTHER -> "none"
                 IN  IF expected = "none"
                     THEN AddedEscalations = {}
                     ELSE /\ Cardinality(AddedEscalations) = 1
                          /\ \A i \in AddedEscalations :
                                /\ status_updates'[i].status = expected
                                /\ status_updates'[i].application_id =
                                      applications[ParentIndex(request)].id]_vars

\* an escalation to security followed by a decision that escalates nothing:
\* the application carries the one escalation note
C11_Witness ==
    /\ auditResp.kind = "decision"
    /\ Len(review_audits) = 2
    /\ review_audits[1].decision = "escalate_to_security"
    /\ review_audits[2].decision = "clear_to_proceed"
    /\ Cardinality({i \in 1..Len(status_updates) :
          status_updates[i].status \in EscalationStatuses}) = 1
    /\ \E i \in 1..Len(status_updates) :
          /\ status_updates[i].status = "audit_escalated_security"
          /\ status_updates[i].application_id = "app-1"

(***************************************************************************)
(* Claims about the audit trail                                            *)
(***************************************************************************)
\* C12: no step of the workflow (a decision, a bias review, a flag
\* synchronisation, a status update) modifies or deletes a ReviewAudit row
\* once it is stored, and the review of a stored audit is never deleted.
C12_AuditsAppendOnly ==
    [][/\ Len(review_audits') >= Len(review_audits)
       /\ \A i \in 1..Len(review_audits) : review_audits'[i] = review_audits[i]
       /\ \A i \in 1..Len(review_audits) :
             \E k \in 1..Len(bias_reviews') :
                bias_reviews'[k].id = review_audits[i].bias_review_id]_vars

\* the last flag of an audited review was resolved and the flags synchronised:
\* the review and its audit are still stored
C12_Witness ==
    /\ auditResp.kind = "flag"
    /\ review_audits # <<>>
    /\ flagged_documents # <<>>
    /\ \A i \in 1..Len(flagged_documents) :
          flagged_documents[i].resolved /\ flagged_documents[i].bias_review_id = 21
    /\ \E k \in 1..Len(bias_reviews) : bias_reviews[k].id = review_audits[1].bias_review_id

(***************************************************************************)
(* Runs of the catalog: seed_flag_catalog and GET /flags/catalog on a      *)
(* stored catalog that an earlier seed list has left                       *)
(***************************************************************************)
\* category and decision codes in ascending order
CategoryCodes ==
    <<"compliance_alert", "document_authenticity", "document_gap", "financial_concern",
      "identity_mismatch", "legacy_watchlist", "travel_intent_risk">>

\* seed_flag_catalog(db), called in a row at most MaxSeedRuns times
SeedFlagCatalog ==
    LET runs == IF auditResp.kind = "seeded" THEN auditResp.runs ELSE 0
        seeded == seed_flag_catalog([flag_categories |-> flag_categories,
                                     decision_categories |-> decision_categories,
                                     flag_decision_rules |-> flag_decision_rules])
    IN  /\ runs < MaxSeedRuns
        /\ flag_categories' = seeded.flag_categories
        /\ decision_categories' = seeded.decision_categories
        /\ flag_decision_rules' = seeded.flag_decision_rules
        /\ auditResp' = [kind |-> "seeded", runs |-> runs + 1]
        /\ UNCHANGED <<now, dataVars, sampleVars, snapVars, influenceVars, next_id, documents,
                       flagged_documents, review_audits, status_updates>>

\* GET /flags/catalog
GetFlagCatalog ==
    LET stored_categories == {flag_categories[i].code : i \in 1..Len(flag_categories)}
        stored_decisions == {decision_categories[i].code : i \in 1..Len(decision_categories)}
    IN  /\ auditResp' =
              [kind |-> "catalog",
               categories |-> SelectSeq(CategoryCodes, LAMBDA c : c \in stored_categories),
               decisions |-> SelectSeq(DecisionCodes, LAMBDA d : d \in stored_decisions),
               matrix |-> [c \in {k \in stored_categories : DecisionMatrix(k) # <<>>} |->
                              DecisionMatrix(c)]]
        /\ UNCHANGED <<now, dataVars, sampleVars, snapVars, influenceVars, next_id, documents,
                       flagged_documents, review_audits, status_updates, catalogVars>>

\* what an earlier seed list may have left: categories and decisions the list
\* did not have, rules it did not have, rules it marked differently, rules
\* the present list has dropped, and (legacy) a category with its rule that
\* the present list has dropped together with an older label of a decision
MissingCategories == SUBSET {"compliance_alert", "document_gap"}
MissingDecisions == SUBSET {"overturn_flag"}
MissingRules ==
    SUBSET {<<"document_gap", "request_additional_docs">>,
            <<"identity_mismatch", "clear_to_proceed">>}
FlippedRules ==
    SUBSET {<<"document_gap", "clear_to_proceed">>,
            <<"financial_concern", "request_additional_docs">>}
ExtraRules ==
    SUBSET {<<"document_gap", "escalate_to_policy">>,
            <<"compliance_alert", "request_clarification">>}

StoredCatalog(missing_categories, missing_decisions, missing_rules, flipped_rules, extra_rules, legacy) ==
    LET has(r) == /\ r.flag_category \notin missing_categories
                  /\ r.decision \notin missing_decisions
        extras == <<[id |-> 35, flag_category |-> "document_gap",
                     decision |-> "escalate_to_policy", requires_follow_up |-> TRUE],
                    [id |-> 36, flag_category |-> "compliance_alert",
                     decision |-> "request_clarification", requires_follow_up |-> FALSE]>>
    IN  [flag_categories |->
             SelectSeq(SeededCatalog.flag_categories,
                       LAMBDA c : c.code \notin missing_categories)
             \o (IF legacy THEN <<[id |-> 7, code |-> "legacy_watchlist",
                                   label |-> "Legacy Watchlist"]>>
                 ELSE <<>>),
         decision_categories |->
             [i \in 1..Len(SelectSeq(SeededCatalog.decision_categories,
                                     LAMBDA d : d.code \notin missing_decisions)) |->
                 LET d == SelectSeq(SeededCatalog.decision_categories,
                                    LAMBDA e : e.code \notin missing_decisions)[i]
                 IN  IF legacy /\ d.code = "escalate_to_policy"
                     THEN [d EXCEPT !.label = "Escalate", !.severity = "medium"]
                     ELSE d],
         flag_decision_rules |->
             {IF RuleKey(r) \in flipped_rules
              THEN [r EXCEPT !.requires_follow_up = ~@] ELSE r :
                 r \in {q \in SeededCatalog.flag_decision_rules :
                           has(q) /\ RuleKey(q) \notin missing_rules}}
             \cup {extras[i] : i \in {k \in 1..2 :
                                         has(extras[k]) /\ RuleKey(extras[k]) \in extra_rules}}
             \cup (IF legacy
                   THEN {[id |-> 37, flag_category |-> "legacy_watchlist",
                          decision |-> "clear_to_proceed", requires_follow_up |-> FALSE]}
                   ELSE {})]

CatalogInit ==
    /\ \E catalog \in {EmptyCatalog} \cup
            {StoredCatalog(mc, md, mr, fr, er, legacy) :
                mc \in MissingCategories, md \in MissingDecisions, mr \in MissingRules,
                fr \in FlippedRules, er \in ExtraRules, legacy \in BOOLEAN} :
          /\ flag_categories = catalog.flag_categories
          /\ decision_categories = catalog.decision_categories
          /\ flag_decision_rules = catalog.flag_decision_rules
    /\ now = SampleStart
    /\ applications = <<>>
    /\ bias_reviews = <<>>
    /\ documents = <<>>
    /\ flagged_documents = <<>>
    /\ review_audits = <<>>
    /\ status_updates = <<>>
    /\ next_id = 0
    /\ auditResp = NoResponse
    /\ sample = NoResponse
    /\ prevSample = NoResponse
    /\ snapshots = <<>>
    /\ jobs = <<>>
    /\ inflight = <<>>
    /\ snapResp = NoResponse
    /\ NoInfluenceData

CatalogNext == SeedFlagCatalog \/ GetFlagCatalog

CatalogSpec == CatalogInit /\ [][CatalogNext]_vars

(***************************************************************************)
(* Claims about the catalog                                                *)
(***************************************************************************)
JustSeeded == auditResp.kind = "seeded"
Seeds == auditResp'.kind = "seeded"
ReadsCatalog == auditResp'.kind = "catalog"

\* no code, id or (category, decision) pair is stored twice
NoDuplicateRow ==
    /\ \A i, j \in 1..Len(flag_categories) :
          (flag_categories[i].code = flag_categories[j].code
             \/ flag_categories[i].id = flag_categories[j].id) => i = j
    /\ \A i, j \in 1..Len(decision_categories) :
          (decision_categories[i].code = decision_categories[j].code
             \/ decision_categories[i].id = decision_categories[j].id) => i = j
    /\ \A r, q \in flag_decision_rules :
          (r.id = q.id \/ (r.flag_category = q.flag_category /\ r.decision = q.decision))
             => r = q

\* every rule has its category and its decision
NoOrphanRow ==
    \A r \in flag_decision_rules :
        /\ \E i \in 1..Len(flag_categories) : flag_categories[i].code = r.flag_category
        /\ \E i \in 1..Len(decision_categories) : decision_categories[i].code = r.decision

\* C13: a run of seed_flag_catalog directly after another run changes no
\* FlagCategory, DecisionCategory or FlagDecisionRule row (number, ids and
\* field values), and leaves no duplicated and no orphaned row.
C13_SecondSeedChangesNothing ==
    [][(JustSeeded /\ Seeds) =>
          /\ flag_categories' = flag_categories
          /\ decision_categories' = decision_categories
          /\ flag_decision_rules' = flag_decision_rules
          /\ NoDuplicateRow'
          /\ NoOrphanRow']_vars

\* two runs in a row on a catalog that held a dropped category: the second
\* run found the 34 rules of the first
C13_Witness ==
    /\ auditResp.kind = "seeded"
    /\ auditResp.runs = 2
    /\ Cardinality(flag_decision_rules) = 34
    /\ Len(flag_categories) = 7

\* C14: after seed_flag_catalog has run on any stored catalog, the stored
\* rules are exactly the rules of the seed, each with the seed's
\* requires_follow_up, one rule per (category, decision) pair.
C14_RulesReconciled ==
    [][Seeds =>
          /\ {[flag_category |-> r.flag_category, decision |-> r.decision,
               requires_follow_up |-> r.requires_follow_up] :
                 r \in flag_decision_rules'} = compatibility_seed
          /\ Cardinality(flag_decision_rules') = Cardinality(compatibility_seed)
          /\ \A r, q \in flag_decision_rules' :
                (r.flag_category = q.flag_category /\ r.decision = q.decision) => r = q]_vars

\* a run that deleted the rule of a dropped category and the rule the seed
\* no longer lists for document_gap, and inserted rules after them
C14_Witness ==
    /\ auditResp.kind = "seeded"
    /\ auditResp.runs = 1
    /\ \A r \in flag_decision_rules : r.id \notin {35, 37}
    /\ \E r \in flag_decision_rules : r.id >= 38
    /\ \E i \in 1..Len(flag_categories) : flag_categories[i].code = "legacy_watchlist"

\* the entries of a category in the matrix of the last response
MatrixEntries(resp, category) ==
    IF category \in DOMAIN resp.matrix
    THEN {resp.matrix[category][i] : i \in 1..Len(resp.matrix[category])}
    ELSE {}
CodeRank(code) == CHOOSE i \in 1..Len(DecisionCodes) : DecisionCodes[i] = code

\* C15: the matrix of get_flag_catalog has an entry for (c, d) iff a rule for
\* (c, d) is stored, with the rule's requires_follow_up, each category's
\* entries sorted by decision code; after seeding requiresFollowUp is true
\* exactly on the request_additional_docs entries and compliance_alert allows
\* exactly clear_to_proceed, escalate_to_policy, escalate_to_security and
\* overturn_flag.
C15_MatrixMirrorsRules ==
    [][ReadsCatalog =>
          /\ \A c \in Range(CategoryCodes), d \in Range(DecisionCodes) :
                /\ (\E e \in MatrixEntries(auditResp', c) : e.code = d)
                      <=> (\E r \in flag_decision_rules :
                              r.flag_category = c /\ r.decision = d)
                /\ \A e \in MatrixEntries(auditResp', c) :
                      e.code = d =>
                         \A r \in flag_decision_rules :
                            (r.flag_category = c /\ r.decision = d)
                               => e.requiresFollowUp = r.requires_follow_up
          /\ \A c \in DOMAIN auditResp'.matrix :
                \A i, j \in 1..Len(auditResp'.matrix[c]) :
                   i < j => CodeRank(auditResp'.matrix[c][i].code)
                               < CodeRank(auditResp'.matrix[c][j].code)
          /\ JustSeeded =>
                /\ \A c \in DOMAIN auditResp'.matrix :
                      \A e \in MatrixEntries(auditResp', c) :
                         e.requiresFollowUp <=> e.code = "request_additional_docs"
                /\ {e.code : e \in MatrixEntries(auditResp', "compliance_alert")} =
                      {"clear_to_proceed", "escalate_to_policy", "escalate_to_security",
                       "overturn_flag"}]_vars

\* the catalog read after a seeding that dropped the rule of a dropped
\* category: the category is listed and has no entry in the matrix
C15_Witness ==
    /\ auditResp.kind = "catalog"
    /\ \E i \in 1..Len(auditResp.categories) : auditResp.categories[i] = "legacy_watchlist"
    /\ "legacy_watchlist" \notin DOMAIN auditResp.matrix
    /\ Len(auditResp.matrix["compliance_alert"]) = 4
    /\ \E e \in MatrixEntries(auditResp, "identity_mismatch") : e.requiresFollowUp

\* C16 as the specification states it: after seeding, the entries of
\* document_gap contain request_additional_docs with requiresFollowUp = true
\* and do not contain clear_to_proceed.
C16_ClearToProceedNotListed ==
    [][(JustSeeded /\ ReadsCatalog) =>
          /\ \E e \in MatrixEntries(auditResp', "document_gap") :
                e.code = "request_additional_docs" /\ e.requiresFollowUp
          /\ \A e \in MatrixEntries(auditResp', "document_gap") :
                e.code # "clear_to_proceed"]_vars

\* C16, amended: after seeding, the entries of document_gap contain
\* request_additional_docs with requiresFollowUp = true and clear_to_proceed
\* with requiresFollowUp = false, and neither of the two escalations.
C16_DocumentGapEntries ==
    [][(JustSeeded /\ ReadsCatalog) =>
          /\ \E e \in MatrixEntries(auditResp', "document_gap") :
                e.code = "request_additional_docs" /\ e.requiresFollowUp
          /\ \E e \in MatrixEntries(auditResp', "document_gap") :
                e.code = "clear_to_proceed" /\ ~e.requiresFollowUp
          /\ \A e \in MatrixEntries(auditResp', "document_gap") :
                e.code \notin {"escalate_to_policy", "escalate_to_security"}]_vars

\* the catalog read after a seeding that inserted the follow-up rule of
\* document_gap, which the stored catalog did not have
C16_Witness ==
    /\ auditResp.kind = "catalog"
    /\ {e.code : e \in MatrixEntries(auditResp, "document_gap")} =
          {"clear_to_proceed", "request_clarification", "request_additional_docs",
           "issue_conditional_approval", "overturn_flag", "refer_for_training"}
    /\ \E r \in flag_decision_rules :
          /\ r.flag_category = "document_gap"
          /\ r.decision = "request_additional_docs"
          /\ r.id >= 35


(***************************************************************************)
(* The influence model: get_influence_leaderboard and the training it      *)
(* starts.  A coefficient is an integer; the classifier is a library whose  *)
(* result is any assignment of coefficients to the active features, and     *)
(* whose fit() refuses labels of a single class.                            *)
(***************************************************************************)
MODEL_REFRESH_HOURS == 12
MIN_MODEL_SAMPLE == 5

MaxModels == 3         \* rows of the bias_influence_models table
MaxModelClock == 26    \* last hour of the influence runs

\* the values classifier.coef_[0] takes
CoefficientValues == {0 - 1, 2}

Abs(x) == IF x >= 0 THEN x ELSE 0 - x

\* two rows of attribute_seed, in the order of their ids
attribute_seed ==
    << [id |-> "doc_quantity_low",
        feature |-> [type |-> "answer_equals", path |-> "document_quantity",
                     value |-> "low"]],
       [id |-> "origin_colombia",
        feature |-> [type |-> "country_in", path |-> "nationality",
                     values |-> {"Colombia"}]] >>

\* answers.get(key, default)
AnswerOf(answers, key, default) ==
    IF key \in DOMAIN answers THEN answers[key] ELSE default

\* _evaluate_feature(feature_config, application, answers, ...) is 1.0; the feature
\* types that read the risk score, the documents and the AI confidence are those of
\* attributes outside attribute_seed above
evaluate_feature(feature_config, application, answers) ==
    IF DOMAIN feature_config = {} THEN FALSE
    ELSE CASE feature_config.type = "visa_type" ->
                  application # <<>> /\ application[1].visa_type = feature_config.value
           [] feature_config.type = "country_in" ->
                  AnswerOf(answers, feature_config.path, "Unknown") \in feature_config.values
           [] feature_config.type = "answer_equals" ->
                  AnswerOf(answers, feature_config.path, NoneVal) = feature_config.value
           [] OTHER -> FALSE

\* review.application, as <<>> or <<row>>
ReviewApplication(review) ==
    SelectSeq(applications, LAMBDA a : a.id = review.application_id)

\* json.loads(app.answers) if app and app.answers else {}
ReviewAnswers(review) ==
    IF ReviewApplication(review) = <<>> THEN <<>>
    ELSE ReviewApplication(review)[1].answers

\* the reviews of the training window, both ends included
ReviewsInWindow(window_start, window_end) ==
    SelectSeq(bias_reviews,
              LAMBDA r : r.reviewed_at # NoDatetime /\ r.reviewed_at >= window_start
                         /\ r.reviewed_at <= window_end)

\* _build_feature_matrix: counts[idx], the reviews whose feature idx is 1.0
feature_counts(reviews, attributes) ==
    [idx \in 1..Len(attributes) |->
        Cardinality({i \in 1..Len(reviews) :
            evaluate_feature(attributes[idx].feature, ReviewApplication(reviews[i]),
                             ReviewAnswers(reviews[i]))})]

\* outcomes: 1 if review.result == "biased" else 0
Outcomes(reviews) ==
    [i \in 1..Len(reviews) |-> IF reviews[i].result = "biased" THEN 1 ELSE 0]

\* [idx for idx, counts in enumerate(feature_counts) if counts != 0]
fired_indices(reviews, attributes) ==
    LET counts == feature_counts(reviews, attributes)
        idxs == [idx \in 1..Len(attributes) |-> idx]
    IN  SelectSeq(idxs, LAMBDA idx : counts[idx] # 0)

\* [idx for idx, counts in enumerate(feature_counts) if counts not in (0, len(reviews))]
active_indices(reviews, attributes) ==
    LET counts == feature_counts(reviews, attributes)
        idxs == [idx \in 1..Len(attributes) |-> idx]
    IN  SelectSeq(idxs, LAMBDA idx : counts[idx] \notin {0, Len(reviews)})

\* len(reviews) <= self.MIN_MODEL_SAMPLE
FiveIsTooFew(reviews) == Len(reviews) <= MIN_MODEL_SAMPLE

\* len(reviews) < self.MIN_MODEL_SAMPLE
TooFewReviews(reviews) == Len(reviews) < MIN_MODEL_SAMPLE

\* not LogisticRegression or np is None
LibrariesMissing == ~libraries.sklearn \/ ~libraries.numpy

\* warning_messages of the unmet prerequisites
PrerequisiteWarnings(reviews) ==
    (IF TooFewReviews(reviews)
        THEN <<"Insufficient reviewed cases to train influence model">> ELSE <<>>)
    \o (IF ~libraries.sklearn
        THEN <<"scikit-learn not available; influence model skipped">> ELSE <<>>)
    \o (IF ~libraries.numpy
        THEN <<"numpy not available; influence model skipped">> ELSE <<>>)

\* classifier.fit(X, y) raises ValueError when y holds a single class
FitRaises(reviews) == Cardinality(Range(Outcomes(reviews))) < 2

\* a row replaces the last row of the table
db_replace_last(table, row) ==
    IF table = <<>> THEN <<row>> ELSE SubSeq(table, 1, Len(table) - 1) \o <<row>>

\* self.db.add(row)
db_add(table, row) == Append(table, row)

\* BiasInfluenceModel(...), refreshed at the time of the call
ModelRow(id, window_start, window_end, window_days, sample_size, warnings) ==
    [id |-> id, window_start |-> window_start, window_end |-> window_end,
     window_days |-> window_days, sample_size |-> sample_size,
     refreshed_at |-> now, warnings |-> warnings]

\* model.factors
ModelFactors(factors, model_id) ==
    SelectSeq(factors, LAMBDA f : f.model_id = model_id)

RECURSIVE InsertByCoefficient(_, _)
\* sorted(..., key=abs(coefficient), reverse=True) is stable: a factor goes behind
\* those of the same size
InsertByCoefficient(sorted, factor) ==
    IF sorted = <<>> THEN <<factor>>
    ELSE IF Abs(Head(sorted).coefficient) >= Abs(factor.coefficient)
         THEN <<Head(sorted)>> \o InsertByCoefficient(Tail(sorted), factor)
         ELSE <<factor>> \o sorted

RECURSIVE ordered_factors(_)
ordered_factors(factors) ==
    IF factors = <<>> THEN <<>>
    ELSE InsertByCoefficient(ordered_factors(SubSeq(factors, 1, Len(factors) - 1)),
                             factors[Len(factors)])

\* _serialize_model(model), with the request it answers
serialize_model(model, factors, raw_days) ==
    [kind |-> "leaderboard", days_back |-> raw_days, at |-> now,
     model_id |-> model.id, window_days |-> model.window_days,
     sample_size |-> model.sample_size, refreshed_at |-> model.refreshed_at,
     warnings |-> model.warnings,
     factors |-> ordered_factors(ModelFactors(factors, model.id))]

\* the rows .order_by(refreshed_at.desc()).first() can return among the given rows
LatestRefreshed(rows) ==
    IF rows = <<>> THEN {<<>>}
    ELSE {<<rows[i]>> : i \in {k \in 1..Len(rows) :
              \A j \in 1..Len(rows) : rows[j].refreshed_at <= rows[k].refreshed_at}}

\* .filter(window_days == days_back).order_by(refreshed_at.desc()).first()
ExistingModels(days_back) ==
    LatestRefreshed(SelectSeq(bias_influence_models,
                              LAMBDA m : m.window_days = days_back))

\* the previous_model query of the training: no filter on window_days
PreviousModels == LatestRefreshed(bias_influence_models)

\* previous_factors.get(attribute["id"]).coefficient, or 0.0
PreviousCoefficient(previous_model, attribute_id) ==
    LET previous == IF previous_model = <<>> THEN <<>>
                    ELSE SelectSeq(ModelFactors(bias_influence_factors, previous_model[1].id),
                                   LAMBDA f : f.attribute_id = attribute_id)
    IN  IF previous = <<>> THEN 0 ELSE previous[Len(previous)].coefficient

\* occurrences / len(reviews), kept as the fraction it is
SampleShare(occurrences, sample_size) == [num |-> occurrences, den |-> sample_size]

\* BiasInfluenceFactor(...) of the active feature at position k
FactorRow(id, model_id, attribute_id, coefficient, occurrences, sample_size, previous_model) ==
    [id |-> id, model_id |-> model_id, attribute_id |-> attribute_id,
     coefficient |-> coefficient, occurrences |-> occurrences,
     sample_share |-> SampleShare(occurrences, sample_size),
     delta |-> coefficient - PreviousCoefficient(previous_model, attribute_id),
     direction |-> IF coefficient >= 0 THEN "driver" ELSE "buffer"]

\* an empty model is added and returned
PersistEmptyModel(window_start, window_end, window_days, sample_size, warnings, raw_days) ==
    LET empty_model == ModelRow(next_id + 1, window_start, window_end, window_days,
                                sample_size, warnings)
    IN  /\ Len(bias_influence_models) < MaxModels
        /\ bias_influence_models' = db_add(bias_influence_models, empty_model)
        /\ next_id' = next_id + 1
        /\ modelResp' = serialize_model(empty_model, <<>>, raw_days)
        /\ UNCHANGED bias_influence_factors

RECURSIVE AddFactors(_, _)
\* for ...: self.db.add(factor)
AddFactors(table, rows) ==
    IF rows = <<>> THEN table ELSE AddFactors(db_add(table, Head(rows)), Tail(rows))

\* _train_influence_model(window_start, window_end, window_days), and the answer
\* of the request that started it
train_influence_model(window_start, window_end, window_days, raw_days) ==
    LET attribute_records == bias_influence_attributes
        reviews == ReviewsInWindow(window_start, window_end)
        counts == feature_counts(reviews, attribute_records)
        active == active_indices(reviews, attribute_records)
    IN  IF attribute_records = <<>>
        THEN PersistEmptyModel(window_start, window_end, window_days, 0,
                 <<"Attribute catalog is empty; unable to train influence model.">>,
                 raw_days)
        ELSE IF TooFewReviews(reviews) \/ LibrariesMissing
        THEN PersistEmptyModel(window_start, window_end, window_days, Len(reviews),
                 PrerequisiteWarnings(reviews), raw_days)
        ELSE IF active = <<>>
        THEN PersistEmptyModel(window_start, window_end, window_days, Len(reviews),
                 <<"Feature matrix lacks variance across samples">>, raw_days)
        ELSE IF FitRaises(reviews)
        THEN /\ modelResp' = [kind |-> "error", days_back |-> raw_days, at |-> now,
                              error |-> "ValueError"]
             /\ UNCHANGED <<bias_influence_models, bias_influence_factors, next_id>>
        ELSE \E coefficients \in [1..Len(active) -> CoefficientValues],
                previous_model \in PreviousModels :
             LET influence_model == ModelRow(next_id + 1, window_start, window_end,
                                             window_days, Len(reviews), <<>>)
                 factors == [k \in 1..Len(active) |->
                                FactorRow(next_id + 1 + k, influence_model.id,
                                          attribute_records[active[k]].id,
                                          coefficients[k], counts[active[k]],
                                          Len(reviews), previous_model)]
                 factor_table == AddFactors(bias_influence_factors, factors)
             IN  /\ Len(bias_influence_models) < MaxModels
                 /\ bias_influence_models' = db_add(bias_influence_models, influence_model)
                 /\ bias_influence_factors' = factor_table
                 /\ next_id' = next_id + 1 + Len(active)
                 /\ modelResp' = serialize_model(influence_model, factor_table, raw_days)

\* existing and existing.refreshed_at and existing.refreshed_at >= freshness_cutoff
ModelIsFresh(existing, freshness_cutoff) ==
    IF existing = <<>> THEN FALSE ELSE existing[1].refreshed_at >= freshness_cutoff

\* get_influence_leaderboard(days_back), the whole call in one step
GetInfluenceLeaderboard(raw_days) ==
    LET days_back == ClampDaysBack(raw_days)
        window_start == now - days_back * HoursPerDay
        freshness_cutoff == now - MODEL_REFRESH_HOURS
    IN  /\ \E existing \in ExistingModels(days_back) :
              IF ModelIsFresh(existing, freshness_cutoff)
              THEN /\ modelResp' = serialize_model(existing[1], bias_influence_factors,
                                                   raw_days)
                   /\ UNCHANGED <<bias_influence_models, bias_influence_factors, next_id>>
              ELSE train_influence_model(window_start, now, days_back, raw_days)
        /\ UNCHANGED <<now, dataVars, sampleVars, snapVars, auditVars,
                       bias_influence_attributes, libraries>>

\* list_snapshots(limit): limit = max(1, min(limit or 10, 90))
ClampLimit(limit) == Max(1, Min(IF limit = 0 THEN 10 ELSE limit, 90))

RECURSIVE InsertByGeneratedAt(_, _)
\* order_by(generated_at.desc()); rows of one time stay in the order of the table
InsertByGeneratedAt(sorted, snapshot) ==
    IF sorted = <<>> THEN <<snapshot>>
    ELSE IF Head(sorted).generated_at >= snapshot.generated_at
         THEN <<Head(sorted)>> \o InsertByGeneratedAt(Tail(sorted), snapshot)
         ELSE <<snapshot>> \o sorted

RECURSIVE NewestFirst(_)
NewestFirst(rows) ==
    IF rows = <<>> THEN <<>>
    ELSE InsertByGeneratedAt(NewestFirst(SubSeq(rows, 1, Len(rows) - 1)), rows[Len(rows)])

\* list_snapshots(limit): a read
ListSnapshots(raw_limit) ==
    LET limit == ClampLimit(raw_limit)
        ordered == NewestFirst(snapshots)
    IN  /\ snapResp' = [kind |-> "snapshots",
                        items |-> SubSeq(ordered, 1, Min(limit, Len(ordered)))]
        /\ UNCHANGED <<now, dataVars, sampleVars, snapshots, next_id, jobs, inflight,
                       auditVars, influenceVars>>

\* what clients send as days_back and as limit
InfluenceDays == {0, 7}
ListLimits == {0, 1}

\* reviewed cases: how many days before the start the review was made, its result,
\* and the answers of the application
Case(days_ago, result, nationality, document_quantity) ==
    [days_ago |-> days_ago, result |-> result,
     answers |-> [nationality |-> nationality, document_quantity |-> document_quantity]]

\* four cases of the last week with both results and both origins, all with few
\* documents
RecentCases ==
    << Case(2, "biased", "Colombia", "low"), Case(2, "justified", "Kenya", "low"),
       Case(2, "biased", "Colombia", "low"), Case(2, "justified", "Kenya", "low") >>

InfluenceDatasets ==
    { \* four cases in the last week, five in the last month
      RecentCases \o <<Case(10, "justified", "Colombia", "high")>>,
      \* five cases in the last week, six in the last month
      RecentCases \o <<Case(2, "biased", "Kenya", "low"),
                       Case(10, "justified", "Colombia", "high")>>,
      \* six cases, every review with the same result
      << Case(2, "justified", "Colombia", "low"), Case(2, "justified", "Kenya", "low"),
         Case(2, "justified", "Colombia", "low"), Case(2, "justified", "Kenya", "low"),
         Case(2, "justified", "Kenya", "low"), Case(10, "justified", "Colombia", "high") >>,
      \* six cases, every application with the same answers
      << Case(2, "biased", "Colombia", "low"), Case(2, "justified", "Colombia", "low"),
         Case(2, "biased", "Colombia", "low"), Case(2, "justified", "Colombia", "low"),
         Case(2, "biased", "Colombia", "low"), Case(10, "justified", "Colombia", "low") >> }

CaseAppIds == <<"app-1", "app-2", "app-3", "app-4", "app-5", "app-6">>

CaseApplications(cases) ==
    [i \in 1..Len(cases) |->
        [answers |-> cases[i].answers]
        @@ ApplicationRow(CaseAppIds[i],
               [status |-> "rejected",
                updated_at |-> SampleStart - cases[i].days_ago * HoursPerDay,
                submitted_at |-> SampleStart - (cases[i].days_ago + 1) * HoursPerDay])]

CaseReviews(cases) ==
    [i \in 1..Len(cases) |->
        ReviewRow(i, CaseAppIds[i], cases[i].result, "pending",
                  SampleStart - cases[i].days_ago * HoursPerDay)]

InfluenceInit ==
    /\ now = SampleStart
    /\ \E cases \in InfluenceDatasets :
          /\ applications = CaseApplications(cases)
          /\ bias_reviews = CaseReviews(cases)
    /\ bias_influence_attributes \in {<<>>, attribute_seed}
    /\ libraries \in [sklearn : BOOLEAN, numpy : BOOLEAN]
    /\ bias_influence_models = <<>>
    /\ bias_influence_factors = <<>>
    /\ modelResp = NoResponse
    /\ next_id = 10
    /\ sample = NoResponse
    /\ prevSample = NoResponse
    /\ snapshots = <<>>
    /\ jobs = <<>>
    /\ inflight = <<>>
    /\ snapResp = NoResponse
    /\ NoAuditData

InfluenceNext ==
    \/ \E raw_days \in InfluenceDays : GetInfluenceLeaderboard(raw_days)
    \/ SnapTick(SampleStart + MaxModelClock)

InfluenceSpec == InfluenceInit /\ [][InfluenceNext]_vars

\* the monitoring service as a whole, over the cases with five reviews in the last
\* week
MaxMonitorClock == 13  \* last hour of the monitoring runs

MonitoringInit ==
    /\ InfluenceInit
    /\ bias_influence_attributes = attribute_seed
    /\ libraries = [sklearn |-> TRUE, numpy |-> TRUE]
    /\ Len(bias_reviews) = 6
    /\ \E r \in Range(bias_reviews) : r.result = "biased"
    /\ \E a \in Range(applications) : a.answers.nationality = "Kenya"

\* rows and waiting tasks of the monitoring tables
MonitorRows == Len(snapshots) + Len(jobs) + Len(bias_influence_models)
MaxMonitorRows == 3

\* the window the snapshot requests of these runs ask for
MonitorDays == {7}

MonitoringNext ==
    \/ MonitorRows < MaxMonitorRows
          /\ \E raw_days \in InfluenceDays : GetInfluenceLeaderboard(raw_days)
    \/ MonitorRows < MaxMonitorRows
          /\ \E raw_days \in MonitorDays : GetOrCreateSnapshot(raw_days)
    \/ MonitorRows < MaxMonitorRows
          /\ \E raw_days \in MonitorDays : TriggerSnapshot(raw_days)
    \/ RunSnapshotJob
    \/ \E raw_limit \in ListLimits : ListSnapshots(raw_limit)
    \/ SnapTick(SampleStart + MaxMonitorClock)

MonitoringSpec == MonitoringInit /\ [][MonitoringNext]_vars


(***************************************************************************)
(* Claims about the influence model                                        *)
(***************************************************************************)
\* the rows a step added at the end of a table, the earlier rows staying as they were
AddedRows(before, after) ==
    IF Len(after) >= Len(before) /\ SubSeq(after, 1, Len(before)) = before
    THEN SubSeq(after, Len(before) + 1, Len(after))
    ELSE <<>>

\* the step changed neither table of the influence model
NothingTrained ==
    /\ bias_influence_models' = bias_influence_models
    /\ bias_influence_factors' = bias_influence_factors

\* the step inserted exactly one model row, of window w, and answered with it
TrainedOneModel(w) ==
    /\ Len(AddedRows(bias_influence_models, bias_influence_models')) = 1
    /\ Len(bias_influence_models') = Len(bias_influence_models) + 1
    /\ bias_influence_models'[Len(bias_influence_models')].window_days = w
    /\ modelResp'.kind = "leaderboard"
    /\ modelResp'.model_id = bias_influence_models'[Len(bias_influence_models')].id
    /\ modelResp'.window_days = w

\* the most recently refreshed models of window w that are younger than 12 hours
YoungModels(w) ==
    {existing \in ExistingModels(w) :
        existing # <<>> /\ now - existing[1].refreshed_at < MODEL_REFRESH_HOURS}

\* C17: get_influence_leaderboard(w) returns, without training, the most recently
\* refreshed model of window w when that model is younger than 12 hours, and
\* otherwise trains, inserts exactly one new model row for w and returns it; the
\* model it returns is always one of window w.
C17_FreshModelOrOneTraining ==
    [][\A raw_days \in InfluenceDays :
          GetInfluenceLeaderboard(raw_days) =>
              LET w == ClampDaysBack(raw_days)
              IN  IF YoungModels(w) # {}
                  THEN /\ NothingTrained
                       /\ modelResp'.kind = "leaderboard"
                       /\ modelResp'.window_days = w
                       /\ \E existing \in YoungModels(w) :
                             modelResp'.model_id = existing[1].id
                  ELSE TrainedOneModel(w)]_vars

\* a request for a window without a model of at most 12 hours ended in the error of
\* classifier.fit, and no model was added
C17_TrainingRaised ==
    /\ modelResp.kind = "error"
    /\ \A i \in 1..Len(bias_influence_models) :
          bias_influence_models[i].window_days # ClampDaysBack(modelResp.days_back)

\* a request answered, without training, with a model refreshed exactly 12 hours
\* before
C17_ReturnedAtTwelveHours ==
    /\ modelResp.kind = "leaderboard"
    /\ modelResp.at - modelResp.refreshed_at = MODEL_REFRESH_HOURS

\* the models of window w that were refreshed last
PrecedingModels(w) ==
    LatestRefreshed(SelectSeq(bias_influence_models, LAMBDA m : m.window_days = w))

\* the coefficient of an attribute in a model, 0 without such a factor or such a model
CoefficientIn(model, attribute_id) ==
    IF model = <<>> THEN 0
    ELSE LET same == SelectSeq(bias_influence_factors,
                               LAMBDA f : f.model_id = model[1].id
                                          /\ f.attribute_id = attribute_id)
         IN  IF same = <<>> THEN 0 ELSE same[1].coefficient

\* C18: in a newly trained model each factor's delta is its coefficient minus the
\* coefficient of the same attribute in the immediately preceding model of the same
\* window_days, and the coefficient itself when there is no such factor or no such
\* model; models of other windows never enter the delta.
C18_DeltaAgainstSameWindow ==
    [][\A raw_days \in InfluenceDays :
          GetInfluenceLeaderboard(raw_days) =>
              \E preceding \in PrecedingModels(ClampDaysBack(raw_days)) :
                  LET added == AddedRows(bias_influence_factors, bias_influence_factors')
                  IN  \A k \in 1..Len(added) :
                          added[k].delta = added[k].coefficient
                                           - CoefficientIn(preceding, added[k].attribute_id)]_vars

\* the first model of its window holds a factor whose delta is not its coefficient
C18_DeltaFromOtherWindow ==
    \E i \in 1..Len(bias_influence_models), k \in 1..Len(bias_influence_factors) :
        /\ bias_influence_factors[k].model_id = bias_influence_models[i].id
        /\ bias_influence_factors[k].delta # bias_influence_factors[k].coefficient
        /\ \A j \in 1..Len(bias_influence_models) :
              j # i => bias_influence_models[j].window_days # bias_influence_models[i].window_days

\* every row the table held is still there, in its place, with its values
RowsKept(before, after) ==
    Len(after) >= Len(before) /\ SubSeq(after, 1, Len(before)) = before

\* C19: no get_or_create_snapshot, enqueue_snapshot, list_snapshots or
\* get_influence_leaderboard call modifies or deletes an existing snapshot, model or
\* factor row: a refresh only inserts rows.
C19_MonitoringRowsAppendOnly ==
    [][/\ RowsKept(snapshots, snapshots')
       /\ RowsKept(bias_influence_models, bias_influence_models')
       /\ RowsKept(bias_influence_factors, bias_influence_factors')]_vars

\* a window was trained twice and the snapshots were listed: both models and their
\* factors are in the tables
C19_Witness ==
    /\ snapResp.kind = "snapshots"
    /\ snapResp.items # <<>>
    /\ \E i, j \in 1..Len(bias_influence_models) :
          /\ i < j
          /\ bias_influence_models[i].window_days = bias_influence_models[j].window_days
          /\ ModelFactors(bias_influence_factors, bias_influence_models[i].id) # <<>>
          /\ ModelFactors(bias_influence_factors, bias_influence_models[j].id) # <<>>

\* the request finds no model of its window refreshed in the last 12 hours, so it
\* trains
TrainingStarts(raw_days) ==
    \A existing \in ExistingModels(ClampDaysBack(raw_days)) :
        ~ModelIsFresh(existing, now - MODEL_REFRESH_HOURS)

\* the attribute catalog is empty, a library is missing, the window holds fewer than
\* 5 reviews, or no feature takes two values over the reviews of the window
NothingToTrainOn(raw_days) ==
    LET reviews == ReviewsInWindow(now - ClampDaysBack(raw_days) * HoursPerDay, now)
        counts == feature_counts(reviews, bias_influence_attributes)
    IN  \/ bias_influence_attributes = <<>>
        \/ ~libraries.sklearn
        \/ ~libraries.numpy
        \/ Len(reviews) < MIN_MODEL_SAMPLE
        \/ \A idx \in 1..Len(bias_influence_attributes) :
              counts[idx] = 0 \/ counts[idx] = Len(reviews)

\* the step persisted a model without factors and with warnings, and returned it
PersistedEmptyModel ==
    LET added == AddedRows(bias_influence_models, bias_influence_models')
    IN  /\ Len(added) = 1
        /\ added[1].warnings # <<>>
        /\ ModelFactors(bias_influence_factors', added[1].id) = <<>>
        /\ bias_influence_factors' = bias_influence_factors
        /\ modelResp'.kind = "leaderboard"
        /\ modelResp'.model_id = added[1].id
        /\ modelResp'.factors = <<>>
        /\ modelResp'.warnings # <<>>

\* every persisted model without a factor carries a warning
EmptyModelsCarryWarning ==
    \A i \in 1..Len(bias_influence_models) :
        ModelFactors(bias_influence_factors, bias_influence_models[i].id) = <<>>
            => bias_influence_models[i].warnings # <<>>

\* C20: training with fewer than 5 reviews in the window, with a statistical library
\* unavailable, with an empty attribute catalog, or with no feature of non-constant
\* value persists a model with zero factors and a non-empty warnings list and
\* returns it without raising; with 5 reviews and none of the other conditions no
\* empty model is persisted; every persisted model without a factor carries a
\* warning.
C20_EmptyModelWithWarnings ==
    /\ []EmptyModelsCarryWarning
    /\ [][\A raw_days \in InfluenceDays :
             (TrainingStarts(raw_days) /\ GetInfluenceLeaderboard(raw_days)) =>
                 IF NothingToTrainOn(raw_days)
                 THEN PersistedEmptyModel
                 ELSE ~PersistedEmptyModel]_vars

\* the week held 4 reviews and gave an empty model with the warning, the month held
\* exactly 5 and gave a model with factors
C20_Witness ==
    \E i, j \in 1..Len(bias_influence_models) :
        /\ bias_influence_models[i].sample_size = MIN_MODEL_SAMPLE - 1
        /\ bias_influence_models[i].warnings
              = <<"Insufficient reviewed cases to train influence model">>
        /\ ModelFactors(bias_influence_factors, bias_influence_models[i].id) = <<>>
        /\ bias_influence_models[j].sample_size = MIN_MODEL_SAMPLE
        /\ bias_influence_models[j].warnings = <<>>
        /\ ModelFactors(bias_influence_factors, bias_influence_models[j].id) # <<>>


\* the reviews a persisted model was trained over
TrainingReviews(model) == ReviewsInWindow(model.window_start, model.window_end)

\* k: the training reviews of the model for which the attribute's feature fired
FiredFor(model, idx) ==
    feature_counts(TrainingReviews(model), bias_influence_attributes)[idx]

\* the feature takes both values over the training reviews: 0 < k < n
VariesOver(model, idx) ==
    0 < FiredFor(model, idx) /\ FiredFor(model, idx) < Len(TrainingReviews(model))

\* the factors of the model for the attribute at position idx
FactorsOf(model, idx) ==
    SelectSeq(ModelFactors(bias_influence_factors, model.id),
              LAMBDA f : f.attribute_id = bias_influence_attributes[idx].id)

\* the sample_share of every factor of the model is k/n and lies in [0,1]
SharesWithinUnit(model) ==
    \A idx \in 1..Len(bias_influence_attributes) :
        \A f \in Range(FactorsOf(model, idx)) :
            /\ f.sample_share.num = FiredFor(model, idx)
            /\ f.sample_share.den = Len(TrainingReviews(model))
            /\ f.sample_share.den > 0
            /\ 0 <= f.sample_share.num
            /\ f.sample_share.num <= f.sample_share.den

\* C21 as stated: in every model persisted by training over n reviews an attribute
\* has a Factor row iff its feature fired for k reviews with 0 < k < n, and every
\* factor's sample_share = k/n lies in [0,1].
C21_FactorIffFeatureVaries ==
    \A model \in Range(bias_influence_models) :
        /\ \A idx \in 1..Len(bias_influence_attributes) :
              FactorsOf(model, idx) # <<>> <=> VariesOver(model, idx)
        /\ SharesWithinUnit(model)

\* C21: in every persisted model an attribute has a Factor row only if its feature
\* fired for k of the n training reviews with 0 < k < n, and it has exactly one
\* when, in addition, the model carries no warning; every factor's
\* sample_share = k/n lies in [0,1].
C21_FactorsOfVaryingFeatures ==
    \A model \in Range(bias_influence_models) :
        /\ \A idx \in 1..Len(bias_influence_attributes) :
              /\ FactorsOf(model, idx) # <<>> => VariesOver(model, idx)
              /\ (model.warnings = <<>> /\ VariesOver(model, idx))
                    => Len(FactorsOf(model, idx)) = 1
        /\ SharesWithinUnit(model)

\* a model trained over the five reviews of the week: origin_colombia fired for two
\* of them and has a factor, doc_quantity_low fired for all five and has none
C21_Witness ==
    \E model \in Range(bias_influence_models) :
        /\ Len(TrainingReviews(model)) = MIN_MODEL_SAMPLE
        /\ model.warnings = <<>>
        /\ \E idx, other \in 1..Len(bias_influence_attributes) :
              /\ VariesOver(model, idx)
              /\ FactorsOf(model, idx) # <<>>
              /\ FiredFor(model, other) = Len(TrainingReviews(model))
              /\ FactorsOf(model, other) = <<>>

\* a model persisted over four reviews, two of them from Colombia, without a factor
C21_VaryingFeatureWithoutFactor ==
    \E model \in Range(bias_influence_models) :
        \E idx \in 1..Len(bias_influence_attributes) :
            /\ VariesOver(model, idx)
            /\ FactorsOf(model, idx) = <<>>
            /\ model.warnings # <<>>


(***************************************************************************)
(* The reviewing officers' side: submit_review of the monitoring service,  *)
(* and the two helpers that keep a review in step with the flags of its    *)
(* application.                                                            *)
(***************************************************************************)
MaxIdsIssued == 4      \* ids generate_id has handed out before a request is taken
FirstFreeId == 31

IdsIssued == next_id - FirstFreeId

BiasReviewSubmissionError(status_code, detail) ==
    [kind |-> "error", status_code |-> status_code, detail |-> detail]

\* what .order_by(BiasReview.reviewed_at.desc()).first() can return among the
\* given rows: <<>> for no row, or one of the rows reviewed last
LatestOf(rows) ==
    IF rows = <<>> THEN {<<>>}
    ELSE {<<rows[i]>> : i \in {k \in 1..Len(rows) :
              \A j \in 1..Len(rows) : rows[j].reviewed_at <= rows[k].reviewed_at}}

\* .filter(BiasReview.application_id == application_id)
ReviewsOf(reviews, application_id) ==
    SelectSeq(reviews, LAMBDA r : r.application_id = application_id)

\* a test that takes a missing officer_id for a given one
OfficerNamed(officer_id) == officer_id # ""

\* if officer_id: a missing or empty officer_id counts as not given
OfficerGiven(officer_id) == officer_id # NoneVal /\ officer_id # ""

\* the checks of submit_review that do not depend on the review found
ValidateReview(application_id, review_data) ==
    LET app == ApplicationById(application_id)
    IN  IF app = <<>> THEN BiasReviewSubmissionError(404, "Application not found")
        ELSE IF app[1].status # "rejected"
        THEN BiasReviewSubmissionError(400, "Can only review rejected applications")
        ELSE IF OfficerGiven(review_data.officer_id)
                /\ ~auditor_exists(review_data.officer_id)
        THEN BiasReviewSubmissionError(404, "Reviewing officer not found")
        ELSE [kind |-> "accepted", status_code |-> 200, detail |-> ""]

\* a submission that always inserts a review
AlwaysNewReview(existing_review, application_id, review_data, id) ==
    [notes |-> review_data.notes]
    @@ [ReviewRow(id, application_id, review_data.result, "pending", now)
           EXCEPT !.officer_id = review_data.officer_id]

\* a submission that leaves the audit status of the review it updates
KeepAuditStatus(existing_review, application_id, review_data, id) ==
    IF existing_review # <<>>
    THEN [notes |-> review_data.notes]
         @@ [existing_review[1] EXCEPT
                !.result = review_data.result,
                !.officer_id = IF OfficerGiven(review_data.officer_id)
                               THEN review_data.officer_id ELSE @,
                !.reviewed_at = now,
                !.updated_at = now]
    ELSE [notes |-> review_data.notes]
         @@ [ReviewRow(id, application_id, review_data.result, "pending", now)
                EXCEPT !.officer_id = review_data.officer_id]

\* bias_review_record: the review found, with the fields the request sets, or the
\* row BiasReview(...) builds when none was found
ReviewRecord(existing_review, application_id, review_data, id) ==
    IF existing_review # <<>>
    THEN [notes |-> review_data.notes]
         @@ [existing_review[1] EXCEPT
                !.result = review_data.result,
                !.officer_id = IF OfficerGiven(review_data.officer_id)
                               THEN review_data.officer_id ELSE @,
                !.reviewed_at = now,
                !.audit_status = "pending",
                !.updated_at = now]
    ELSE [notes |-> review_data.notes]
         @@ [ReviewRow(id, application_id, review_data.result, "pending", now)
                EXCEPT !.officer_id = review_data.officer_id]

\* the StatusUpdate of a review that found bias
BiasStatusUpdate(application_id, review_data, id) ==
    IF review_data.result = "biased"
    THEN <<StatusUpdateRow(id, application_id, "bias_review",
               <<"Potential bias detected in rejection: ", review_data.notes>>,
               review_data.officer_id)>>
    ELSE <<>>

\* the answer of submit_review
ReviewPayload(bias_review_record) ==
    [kind |-> "review", status_code |-> 200,
     review |-> [id |-> bias_review_record.id,
                 application_id |-> bias_review_record.application_id,
                 result |-> bias_review_record.result,
                 notes |-> bias_review_record.notes,
                 officer_id |-> bias_review_record.officer_id,
                 audit_status |-> bias_review_record.audit_status,
                 reviewed_at |-> bias_review_record.reviewed_at]]

\* BiasMonitoringService.submit_review(application_id, review_data), the whole
\* call in one step
SubmitReview(application_id, review_data) ==
    LET failure == ValidateReview(application_id, review_data)
        untouched == <<now, applications, sampleVars, snapVars, influenceVars, documents,
                       flagged_documents, review_audits, catalogVars>>
    IN  IF failure.kind = "error"
        THEN /\ auditResp' = failure
             /\ UNCHANGED <<untouched, bias_reviews, status_updates, next_id>>
        ELSE \E existing_review \in LatestOf(ReviewsOf(bias_reviews, application_id)) :
               IF existing_review = <<>> /\ ~OfficerGiven(review_data.officer_id)
               THEN /\ auditResp' = BiasReviewSubmissionError(
                                        400, "Officer ID is required for new reviews")
                    /\ UNCHANGED <<untouched, bias_reviews, status_updates, next_id>>
               ELSE LET created == IF existing_review = <<>> THEN 1 ELSE 0
                        bias_review_record ==
                            ReviewRecord(existing_review, application_id, review_data,
                                         next_id + 1)
                        status_update ==
                            BiasStatusUpdate(application_id, review_data,
                                             next_id + created + 1)
                    IN  /\ bias_reviews' =
                              IF existing_review # <<>>
                              THEN ReplaceRow(bias_reviews, bias_review_record)
                              ELSE Append(bias_reviews, bias_review_record)
                        /\ status_updates' = status_updates \o status_update
                        /\ next_id' = next_id + created + Len(status_update)
                        /\ auditResp' = ReviewPayload(bias_review_record)
                        /\ UNCHANGED untouched

\* the oldest officer: Officer.id ordered by created_at, first row
FirstOfficer == "maria.schmidt"

\* _resolve_officer_id(db, application, flagged_document)
resolve_officer_id(application, flagged_by_officer_id) ==
    IF OfficerGiven(flagged_by_officer_id) THEN flagged_by_officer_id
    ELSE IF OfficerGiven(application.assigned_officer_id)
    THEN application.assigned_officer_id
    ELSE IF officers = {} THEN NoneVal ELSE FirstOfficer

\* .filter(application_id == application.id).filter(audit_status == 'pending')
PendingReviewsOf(reviews, application_id) ==
    SelectSeq(reviews, LAMBDA r : r.application_id = application_id
                                  /\ r.audit_status = "pending")

\* the review ensure_review_for_flagged_document goes on with: the pending review
\* found, brought up to date, or a new one
EnsuredReview(review, application_id, officer_id, flagged_at, id) ==
    IF review = <<>>
    THEN [ReviewRow(id, application_id, "uncertain", "pending", flagged_at)
             EXCEPT !.officer_id = officer_id, !.updated_at = now]
    ELSE [review[1] EXCEPT
             !.officer_id = IF OfficerGiven(@) THEN @ ELSE officer_id,
             !.audit_status = "pending",
             !.updated_at = now,
             !.reviewed_at = IF @ = NoDatetime \/ flagged_at > @ THEN flagged_at ELSE @]

\* the row of a flag just raised on a document of the application
NewFlag(id, application_id, flag_type) ==
    [id |-> id, application_id |-> application_id, document_id |-> 1,
     flag_type |-> flag_type, resolved |-> FALSE, bias_review_id |-> NoId]

\* ensure_review_for_flagged_document(db, application, flagged_document) for a flag
\* the caller has just added to the session: flagged_by and flagged_at are the
\* flag's flagged_by_officer_id and flagged_at
EnsureReviewForFlag(application_id, flagged_by, flagged_at_given) ==
    LET application == ApplicationById(application_id)
        flag == NewFlag(next_id + 1, application_id, "document_gap")
        flags == Append(flagged_documents, flag)
        officer_id == resolve_officer_id(application[1], flagged_by)
        flagged_at == IF flagged_at_given = NoDatetime THEN now ELSE flagged_at_given
        untouched == <<now, applications, sampleVars, snapVars, influenceVars, documents,
                       status_updates, catalogVars>>
    IN  /\ application # <<>>
        /\ IF officer_id = NoneVal
           THEN /\ flagged_documents' = flags
                /\ next_id' = next_id + 1
                /\ auditResp' = [kind |-> "ensured", flag_id |-> flag.id, review_id |-> NoId]
                /\ UNCHANGED <<untouched, bias_reviews, review_audits>>
           ELSE \E review \in LatestOf(PendingReviewsOf(bias_reviews, application_id)) :
                  LET ensured == EnsuredReview(review, application_id, officer_id,
                                               flagged_at, next_id + 2)
                      reviews == IF review = <<>> THEN Append(bias_reviews, ensured)
                                 ELSE ReplaceRow(bias_reviews, ensured)
                  IN  \E latest \in LatestOf(ReviewsOf(reviews, application_id)) :
                        LET synced == sync_review_flags(latest, application_id, flags,
                                                        reviews)
                        IN  /\ flagged_documents' = synced.flagged_documents
                            /\ bias_reviews' = synced.bias_reviews
                            /\ review_audits' = synced.review_audits
                            /\ next_id' = next_id + (IF review = <<>> THEN 2 ELSE 1)
                            /\ auditResp' = [kind |-> "ensured", flag_id |-> flag.id,
                                             review_id |-> ensured.id]
                            /\ UNCHANGED untouched

\* sync_review_flags_for_application(db, application_id) on the tables as they are
SyncReviewFlags(application_id) ==
    \E review \in LatestOf(ReviewsOf(bias_reviews, application_id)) :
        LET synced == sync_review_flags(review, application_id, flagged_documents,
                                        bias_reviews)
            kept == SelectSeq(synced.bias_reviews,
                              LAMBDA r : review # <<>> /\ r.id = review[1].id)
        IN  /\ flagged_documents' = synced.flagged_documents
            /\ bias_reviews' = synced.bias_reviews
            /\ review_audits' = synced.review_audits
            /\ auditResp' = [kind |-> "synced",
                             review_id |-> IF kept = <<>> THEN NoId ELSE kept[1].id]
            /\ UNCHANGED <<now, applications, sampleVars, snapVars, influenceVars, next_id,
                           documents, status_updates, catalogVars>>

\* a rejected application nobody has reviewed or flagged
FirstReviewInit ==
    /\ applications = <<SeedApplication("rejected")>>
    /\ flagged_documents = <<>>
    /\ bias_reviews = <<>>
    /\ status_updates = <<>>

ReviewInit ==
    /\ now = SampleStart
    /\ documents = SeedDocuments(<<[type |-> "passport", verified |-> TRUE]>>)
    /\ DemoApplicationInit \/ BiasCaseInit \/ FirstReviewInit
    /\ review_audits = <<>>
    /\ flag_categories = SeededCatalog.flag_categories
    /\ decision_categories = SeededCatalog.decision_categories
    /\ flag_decision_rules = SeededCatalog.flag_decision_rules
    /\ next_id = FirstFreeId
    /\ auditResp = NoResponse
    /\ sample = NoResponse
    /\ prevSample = NoResponse
    /\ snapshots = <<>>
    /\ jobs = <<>>
    /\ inflight = <<>>
    /\ snapResp = NoResponse
    /\ NoInfluenceData

\* what the reviewing officers send
SubmitRequests ==
    {[application_id |-> "app-1",
      review_data |-> [result |-> r, notes |-> "second look", officer_id |-> o]] :
        r \in {"biased", "justified"}, o \in {"john.davis", NoneVal}}
    \cup {[application_id |-> "app-1",
           review_data |-> [result |-> "biased", notes |-> "n", officer_id |-> "nobody"]],
          [application_id |-> "app-9",
           review_data |-> [result |-> "biased", notes |-> "n", officer_id |-> "john.davis"]]}

\* the decisions the senior officer takes in these runs
ClosingRequests ==
    {request \in DecisionRequests :
        /\ request.review_id = 21
        /\ request.payload.auditor_id = "maria.schmidt"
        /\ request.payload.decision_code
              \in {Str("clear_to_proceed", FALSE), Str("overturn_flag", TRUE)}}

\* the flags raised in these runs: by whom, and when (NoDatetime: just now)
FlagRequests ==
    {[application_id |-> "app-1", flagged_by |-> o, flagged_at |-> t] :
        o \in {"john.davis", NoneVal}, t \in {NoDatetime, SampleStart - 3 * HoursPerDay}}

ReviewNext ==
    \/ IdsIssued < MaxIdsIssued
          /\ \E request \in SubmitRequests :
                SubmitReview(request.application_id, request.review_data)
    \/ IdsIssued < MaxIdsIssued
          /\ \E request \in ClosingRequests :
                SubmitDecision(request.review_id, request.payload)
    \/ IdsIssued < MaxIdsIssued
          /\ \E request \in FlagRequests :
                EnsureReviewForFlag(request.application_id, request.flagged_by,
                                    request.flagged_at)
    \/ SyncReviewFlags("app-1")

ReviewSpec == ReviewInit /\ [][ReviewNext]_vars


(***************************************************************************)
(* Claims about submit_review and the review helpers                       *)
(***************************************************************************)
\* the step neither created nor changed a BiasReview and added no StatusUpdate
NoReviewWritten ==
    /\ bias_reviews' = bias_reviews
    /\ status_updates' = status_updates

\* the request names an officer the officers table does not hold
UnknownOfficer(request) ==
    /\ request.review_data.officer_id # NoneVal
    /\ request.review_data.officer_id # ""
    /\ request.review_data.officer_id \notin officers

\* the request names no officer
NoOfficer(request) ==
    request.review_data.officer_id = NoneVal \/ request.review_data.officer_id = ""

\* C22: submit_review rejects with 404 a missing application, with 400 an
\* application whose status is not rejected, with 404 a given but unknown
\* officer_id, and with 400 a first review that carries no officer_id; in each of
\* these cases no BiasReview is created or changed and no StatusUpdate is added.
C22_RejectedWithoutWrites ==
    [][\A request \in SubmitRequests :
          SubmitReview(request.application_id, request.review_data) =>
              LET app == ApplicationById(request.application_id)
                  reviews == ReviewsOf(bias_reviews, request.application_id)
              IN  IF app = <<>> THEN Rejected(404) /\ NoReviewWritten
                  ELSE IF app[1].status # "rejected" THEN Rejected(400) /\ NoReviewWritten
                  ELSE IF UnknownOfficer(request) THEN Rejected(404) /\ NoReviewWritten
                  ELSE IF reviews = <<>> /\ NoOfficer(request)
                  THEN Rejected(400) /\ NoReviewWritten
                  ELSE auditResp'.kind = "review"]_vars

\* a first review without an officer was refused: the application still has no
\* review
C22_Witness ==
    /\ auditResp.kind = "error"
    /\ auditResp.status_code = 400
    /\ auditResp.detail = "Officer ID is required for new reviews"
    /\ ReviewsOf(bias_reviews, "app-1") = <<>>
    /\ status_updates = <<>>

\* the places of the application's most recent reviews in the table
LatestPlaces(application_id) ==
    {i \in 1..Len(bias_reviews) :
        /\ bias_reviews[i].application_id = application_id
        /\ \A j \in 1..Len(bias_reviews) :
              bias_reviews[j].application_id = application_id
                  => bias_reviews[j].reviewed_at <= bias_reviews[i].reviewed_at}

\* C23: submit_review for an application that has a BiasReview updates the most
\* recent one in place and inserts none; it inserts a review only when the
\* application has none; either way the stored review ends pending, and the
\* ReviewAudit rows are kept.
C23_LatestReviewUpdatedInPlace ==
    [][\A request \in SubmitRequests :
          (SubmitReview(request.application_id, request.review_data)
           /\ auditResp'.kind = "review") =>
              /\ review_audits' = review_audits
              /\ IF ReviewsOf(bias_reviews, request.application_id) # <<>>
                 THEN /\ Len(bias_reviews') = Len(bias_reviews)
                      /\ \E i \in LatestPlaces(request.application_id) :
                            /\ bias_reviews'[i].id = bias_reviews[i].id
                            /\ bias_reviews'[i].id = auditResp'.review.id
                            /\ bias_reviews'[i].audit_status = "pending"
                            /\ bias_reviews'[i].result = request.review_data.result
                            /\ bias_reviews'[i].reviewed_at = now
                            /\ \A j \in 1..Len(bias_reviews) :
                                  j # i => bias_reviews'[j] = bias_reviews[j]
                 ELSE /\ Len(bias_reviews') = Len(bias_reviews) + 1
                      /\ SubSeq(bias_reviews', 1, Len(bias_reviews)) = bias_reviews
                      /\ bias_reviews'[Len(bias_reviews')].application_id
                            = request.application_id
                      /\ bias_reviews'[Len(bias_reviews')].audit_status = "pending"
                      /\ bias_reviews'[Len(bias_reviews')].result
                            = request.review_data.result]_vars

\* a review an audit decision had closed was reviewed again: it is pending, it is
\* still the application's only review, and its audit is still there
C23_Witness ==
    /\ auditResp.kind = "review"
    /\ auditResp.review.id = 21
    /\ Len(ReviewsOf(bias_reviews, "app-1")) = 1
    /\ ReviewById(21) # <<>>
    /\ ReviewById(21)[1].audit_status = "pending"
    /\ \E a \in Range(ReviewAudits(21)) : a.decision = "clear_to_proceed"


\* the application has a flag that is not resolved
HasActiveFlag(application_id) ==
    \E f \in Range(flagged_documents) : f.application_id = application_id /\ ~f.resolved

ReviewIds(reviews) == {reviews[i].id : i \in 1..Len(reviews)}

\* every flag refers to no review or to a review of the table
NoDanglingFlag ==
    \A f \in Range(flagged_documents) :
        f.bias_review_id = NoId \/ f.bias_review_id \in ReviewIds(bias_reviews)

\* C24: sync_review_flags_for_application deletes the application's latest
\* BiasReview iff the application has no unresolved flag and that review has no
\* ReviewAudit; the flags of the application then refer to no review, and in no
\* reachable state does a flag refer to a review that is gone.
C24_OrphanReviewDeleted ==
    /\ []NoDanglingFlag
    /\ [][SyncReviewFlags("app-1") =>
             \E review \in LatestOf(ReviewsOf(bias_reviews, "app-1")) :
                 IF review = <<>> THEN bias_reviews' = bias_reviews
                 ELSE /\ review[1].id \notin ReviewIds(bias_reviews')
                            <=> (~HasActiveFlag("app-1")
                                 /\ ReviewAudits(review[1].id) = <<>>)
                      /\ ReviewIds(bias_reviews) \ {review[1].id}
                            \subseteq ReviewIds(bias_reviews')
                      /\ review[1].id \notin ReviewIds(bias_reviews')
                            => \A f \in Range(flagged_documents') :
                                   f.application_id = "app-1" => f.bias_review_id = NoId]_vars

\* the synchronisation removed the review of an application whose only flag is
\* resolved: the flag is still there and refers to no review
C24_Witness ==
    /\ auditResp.kind = "synced"
    /\ auditResp.review_id = NoId
    /\ ReviewsOf(bias_reviews, "app-1") = <<>>
    /\ \E f \in Range(flagged_documents) :
          f.application_id = "app-1" /\ f.resolved /\ f.bias_review_id = NoId

\* C28: when ensure_review_for_flagged_document attaches a new unresolved flag to an
\* application whose BiasReview carries a terminal audit decision, that review is
\* reopened (pending again) and the flag attached to it, no further BiasReview is
\* created, and the review the call returns is the one the flag is attached to.
C28_ClosedReviewReopened ==
    [][\A request \in FlagRequests :
          (/\ ReviewsOf(bias_reviews, request.application_id) # <<>>
           /\ \A r \in Range(ReviewsOf(bias_reviews, request.application_id)) :
                 r.audit_status \in ALLOWED_DECISIONS
           /\ EnsureReviewForFlag(request.application_id, request.flagged_by,
                                  request.flagged_at)) =>
              /\ Len(bias_reviews') = Len(bias_reviews)
              /\ auditResp'.review_id \in ReviewIds(bias_reviews)
              /\ \E r \in Range(bias_reviews') :
                    r.id = auditResp'.review_id /\ r.audit_status = "pending"
              /\ \E f \in Range(flagged_documents') :
                    f.id = auditResp'.flag_id /\ f.bias_review_id = auditResp'.review_id]_vars

\* the application has a second review beside the one an audit decision closed
C28_SecondReviewCreated ==
    /\ auditResp.kind = "ensured"
    /\ \E r, q \in Range(ReviewsOf(bias_reviews, "app-1")) :
          /\ r.id # q.id
          /\ r.audit_status \in ALLOWED_DECISIONS
          /\ q.id = auditResp.review_id

\* the review the call returned is not the one its flag is attached to
C28_ReturnedReviewWithoutFlag ==
    /\ auditResp.kind = "ensured"
    /\ auditResp.review_id # NoId
    /\ \E f \in Range(flagged_documents) :
          f.id = auditResp.flag_id /\ f.bias_review_id # auditResp.review_id

\* every review is pending or carries one of the decision codes
AuditStatusKnown ==
    \A r \in Range(bias_reviews) : r.audit_status \in {"pending"} \cup ALLOWED_DECISIONS

\* C30: in every state reachable through submit_review, decisions,
\* ensure_review_for_flagged_document and sync_review_flags_for_application every
\* BiasReview.audit_status is pending or one of the 8 decision codes; the
\* synchronisation leaves the latest review pending whenever the application has an
\* unresolved flag, and turns a pending review into clear_to_proceed only when no
\* flag is unresolved.
C30_AuditStatusDomain ==
    /\ []AuditStatusKnown
    /\ Cardinality(ALLOWED_DECISIONS) = 8
    /\ [][SyncReviewFlags("app-1") =>
             /\ (HasActiveFlag("app-1") /\ ReviewsOf(bias_reviews, "app-1") # <<>>)
                   => \E i \in LatestPlaces("app-1") :
                          /\ i <= Len(bias_reviews')
                          /\ bias_reviews'[i].id = bias_reviews[i].id
                          /\ bias_reviews'[i].audit_status = "pending"
             /\ \A r \in Range(bias_reviews), q \in Range(bias_reviews') :
                   (r.id = q.id /\ r.audit_status = "pending"
                    /\ q.audit_status # "pending")
                      => q.audit_status = "clear_to_proceed" /\ ~HasActiveFlag("app-1")]_vars

\* a review with an audit was pending with every flag resolved, and the
\* synchronisation turned it into clear_to_proceed
C30_Witness ==
    /\ auditResp.kind = "synced"
    /\ auditResp.review_id = 21
    /\ ReviewAudits(21) # <<>>
    /\ ReviewById(21) # <<>>
    /\ ReviewById(21)[1].audit_status = "clear_to_proceed"
    /\ ReviewById(21)[1].updated_at = now
    /\ \E a \in Range(ReviewAudits(21)) : a.decision # "clear_to_proceed"


\* C27: the freshness bound is strict: get_or_create_snapshot(w) returns the cached
\* snapshot only when now - generated_at is strictly less than 12 hours, and
\* computes a fresh snapshot when the latest snapshot of w is exactly 12 hours old.
C27_StrictFreshnessBound ==
    [][AnswersGetOrCreate =>
          LET w == ClampDaysBack(snapResp'.days_back)
          IN  /\ (SnapshotsOfWindow(w) # {} /\ ReturnsCached(w))
                    => now - LatestGeneratedAt(w) < SNAPSHOT_REFRESH_HOURS
              /\ (SnapshotsOfWindow(w) # {}
                  /\ now - LatestGeneratedAt(w) = SNAPSHOT_REFRESH_HOURS)
                    => InsertsOne(w)]_vars

\* a request answered with the stored snapshot that is exactly 12 hours old
C27_CachedAtTwelveHours ==
    /\ snapResp.kind = "snapshot"
    /\ snapResp.at - snapResp.generated_at = SNAPSHOT_REFRESH_HOURS
    /\ \A i \in 1..Len(snapshots) :
          snapshots[i].window_days = snapResp.window_days
              => snapshots[i].generated_at <= snapResp.generated_at


(***************************************************************************)
(* The snapshot trigger and its background task, the task taken in steps   *)
(* (routes/bias_monitoring.py)                                             *)
(***************************************************************************)
\* _create_snapshot_async starts: session = get_db_session(), a session of the
\* task's own; the queued call leaves the task list
BeginSnapshotJob(r) ==
    /\ inflight[r].pc = "idle"
    /\ \E k \in 1..Len(jobs) :
          /\ inflight' = [inflight EXCEPT ![r] = [pc |-> "job", raw_days |-> jobs[k]]]
          /\ jobs' = SubSeq(jobs, 1, k - 1) \o SubSeq(jobs, k + 1, Len(jobs))
    /\ UNCHANGED <<now, dataVars, sampleVars, snapshots, next_id, snapResp, auditVars,
                   influenceVars>>

\* the task adds its snapshot and commits; finally: session.close()
FinishSnapshotJob(r) ==
    /\ inflight[r].pc = "job"
    /\ enqueue_snapshot(inflight[r].raw_days)
    /\ inflight' = [inflight EXCEPT ![r] = [pc |-> "idle"]]
    /\ UNCHANGED <<now, dataVars, sampleVars, jobs, snapResp, auditVars, influenceVars>>

\* the task raises before its commit; finally: session.close() discards what the
\* session held
FailSnapshotJob(r) ==
    /\ inflight[r].pc = "job"
    /\ inflight' = [inflight EXCEPT ![r] = [pc |-> "idle"]]
    /\ UNCHANGED <<now, dataVars, sampleVars, snapshots, next_id, jobs, snapResp, auditVars,
                   influenceVars>>

TriggerNext ==
    \/ \E raw_days \in SnapshotDays : GetOrCreateSnapshot(raw_days)
    \/ \E raw_days \in SnapshotDays : TriggerSnapshot(raw_days)
    \/ \E r \in 1..MaxRequests : BeginSnapshotJob(r)
    \/ \E r \in 1..MaxRequests : FinishSnapshotJob(r)
    \/ \E r \in 1..MaxRequests : FailSnapshotJob(r)
    \/ SnapTick(MaxConcClock)

\* triggers, their background tasks and get_or_create_snapshot requests
TriggerSpec == SnapshotInit /\ [][TriggerNext]_vars

\* the database tables and the sessions at work
StoredState == <<dataVars, snapshots, next_id, auditVars, influenceVars, inflight>>

\* C26: the snapshot trigger answers with its acknowledgment without computing: the
\* task is only queued and no table and no session is touched; the task runs later
\* in a session of its own, and whether it commits its snapshot or fails, the
\* response already given is as it was.
C26_TriggerFireAndForget ==
    [][/\ \A raw_days \in SnapshotDays :
             TriggerSnapshot(raw_days) =>
                 /\ snapResp' = [kind |-> "scheduled", days_back |-> raw_days, at |-> now]
                 /\ jobs' = Append(jobs, raw_days)
                 /\ StoredState' = StoredState
       /\ \A r \in 1..MaxRequests :
             (BeginSnapshotJob(r) \/ FinishSnapshotJob(r) \/ FailSnapshotJob(r)) =>
                 /\ snapResp' = snapResp
                 /\ \A q \in 1..MaxRequests : q # r => inflight'[q] = inflight[q]
       /\ \A r \in 1..MaxRequests :
             FailSnapshotJob(r) => snapshots' = snapshots /\ jobs' = jobs]_vars

\* a trigger was acknowledged, its task has run and failed, and the
\* acknowledgment stands with no snapshot stored
C26_Witness ==
    /\ snapResp.kind = "scheduled"
    /\ jobs = <<>>
    /\ \A r \in 1..MaxRequests : inflight[r].pc = "idle"
    /\ snapshots = <<>>
    /\ now > snapResp.at


(***************************************************************************)
(* The decision handler taken commit by commit (routes/review_audit.py)    *)
(***************************************************************************)
\* the handler between its two commits: inflight holds what it keeps in its locals
DecisionInFlight == inflight # <<>>

\* submit_review_audit_decision up to its first db.commit(): the validation, the
\* ReviewAudit row, the review's audit_status and the escalation note
RecordDecision(review_id, payload) ==
    LET outcome == ValidateDecision(review_id, payload)
    IN  /\ ~DecisionInFlight
        /\ IF outcome.kind = "error"
           THEN /\ auditResp' = outcome
                /\ UNCHANGED <<now, dataVars, sampleVars, snapVars, influenceVars, next_id,
                               documents, flagged_documents, review_audits, status_updates,
                               catalogVars>>
           ELSE
             LET review == ReviewById(review_id)[1]
                 decision == NormalizeDecision(RawDecision(payload))
                 auditor_id == payload.auditor_id
                 audit_record == [id |-> next_id + 1, bias_review_id |-> review_id,
                                  auditor_id |-> auditor_id, decision |-> decision,
                                  created_at |-> now]
                 escalation ==
                     IF EscalationStatus(decision) = NoneVal THEN <<>>
                     ELSE <<StatusUpdateRow(next_id + 2, review.application_id,
                                            EscalationStatus(decision),
                                            EscalationNote(decision), auditor_id)>>
             IN  /\ WritesSoFar < MaxAuditSteps
                 /\ review_audits' = Append(review_audits, audit_record)
                 /\ bias_reviews' = ReplaceRow(bias_reviews, ReviewAfterDecision(review, decision))
                 /\ status_updates' = status_updates \o escalation
                 /\ next_id' = next_id + 1 + Len(escalation)
                 /\ inflight' = <<[pc |-> "recorded", review_id |-> review_id,
                                   decision |-> decision, auditor_id |-> auditor_id]>>
                 /\ UNCHANGED <<now, applications, sampleVars, snapshots, jobs, snapResp,
                                influenceVars, documents, flagged_documents, catalogVars,
                                auditResp>>

\* the status change the handler in flight (or just failed) has still to write
EntailedChange(handler) ==
    LET review == ReviewById(handler.review_id)
        application == IF review = <<>> THEN <<>>
                       ELSE ApplicationById(review[1].application_id)
    IN  IF application = <<>> THEN [status |-> NoneVal, notes |-> <<>>]
        ELSE StatusAfterAudit(review[1], application[1], handler.decision)

\* the rest of the handler: db.refresh(review), the application's status with its
\* StatusUpdate, the second db.commit() when the status changed, and the response
ApplyStatusChange ==
    /\ DecisionInFlight
    /\ LET handler == inflight[1]
           review == ReviewById(handler.review_id)[1]
           application == ApplicationById(review.application_id)
           change == EntailedChange(handler)
           changed == change.status # NoneVal
           new_application ==
               IF changed
               THEN <<[application[1] EXCEPT !.status = change.status, !.updated_at = now]>>
               ELSE application
       IN  /\ status_updates' =
                 IF changed
                 THEN Append(status_updates,
                             StatusUpdateRow(next_id + 1, application[1].id, change.status,
                                             change.notes, handler.auditor_id))
                 ELSE status_updates
           /\ applications' = IF changed THEN ReplaceRow(applications, new_application[1])
                              ELSE applications
           /\ next_id' = IF changed THEN next_id + 1 ELSE next_id
           /\ auditResp' =
                 [kind |-> "decision", status_code |-> 200,
                  message |-> "Audit decision recorded",
                  review |-> serialize_review_with_context(
                                 review, new_application, ReviewAudits(review.id),
                                 ReviewFlags(review.id))]
    /\ inflight' = <<>>
    /\ UNCHANGED <<now, bias_reviews, sampleVars, snapshots, jobs, snapResp, influenceVars,
                   documents, flagged_documents, review_audits, catalogVars>>

\* the handler ends after its first commit: a query or the second commit raises,
\* or the process stops; the client gets a server error
FailAfterRecording ==
    /\ DecisionInFlight
    /\ auditResp' = [kind |-> "error", status_code |-> 500,
                     detail |-> "Internal Server Error", handler |-> inflight[1]]
    /\ inflight' = <<>>
    /\ UNCHANGED <<now, dataVars, sampleVars, snapshots, jobs, snapResp, influenceVars,
                   next_id, documents, flagged_documents, review_audits, status_updates,
                   catalogVars>>

DecisionStepsNext ==
    \/ \E request \in DecisionRequests : RecordDecision(request.review_id, request.payload)
    \/ ApplyStatusChange
    \/ FailAfterRecording
    \/ \E flag_id \in FlagIdInputs : ResolveFlag(flag_id)

\* decisions whose two commits other sessions can see apart
DecisionStepsSpec == AuditInit /\ [][DecisionStepsNext]_vars

\* the decision is committed: its ReviewAudit row, and the review's audit_status
DecisionCommitted(handler) ==
    /\ \E a \in Range(review_audits) :
          a.bias_review_id = handler.review_id /\ a.decision = handler.decision
    /\ ReviewById(handler.review_id) # <<>>
    /\ ReviewById(handler.review_id)[1].audit_status = handler.decision

\* C29: recording a decision is atomic with its consequences: in no reachable
\* state, a failure between the handler's steps included, are the ReviewAudit row
\* and the new audit_status committed while the application status change the
\* decision entails and its StatusUpdate are not.
C29_DecisionAtomic ==
    /\ DecisionInFlight =>
          ~(DecisionCommitted(inflight[1]) /\ EntailedChange(inflight[1]).status # NoneVal)
    /\ (auditResp.kind = "error" /\ auditResp.status_code = 500) =>
          ~(/\ DecisionCommitted(auditResp.handler)
            /\ EntailedChange(auditResp.handler).status # NoneVal)

\* the handler failed after its first commit: the audit and the audit status are
\* stored, the rejected application with an open flag was not moved to
\* flagged_for_review and has no StatusUpdate
C29_DecisionWithoutStatusChange ==
    /\ auditResp.kind = "error"
    /\ auditResp.status_code = 500
    /\ DecisionCommitted(auditResp.handler)
    /\ HasActiveFlag("app-1")
    /\ ApplicationById("app-1")[1].status = "rejected"
    /\ \A u \in Range(status_updates) : u.status # FLAG_AUDITED_STATUS


(***************************************************************************)
(* submit_review in sessions of their own, each taken in two steps: what   *)
(* it reads, and its commit (services/bias_monitoring.py)                  *)
(***************************************************************************)
MaxSubmitTicks == 2    \* hours the clock advances while submissions are under way

\* bias_review_record as a session holds it, with the now the request took
ReviewRecordAt(existing_review, application_id, review_data, id, at) ==
    LET record == ReviewRecord(existing_review, application_id, review_data, id)
    IN  [record EXCEPT !.reviewed_at = at, !.updated_at = at]

\* the UPDATE a flush emits for a loaded row: the columns whose value differs
\* from the value loaded are written, the others stay as the table has them
FlushUpdate(current, loaded, record) ==
    [f \in DOMAIN record |->
        IF f \in DOMAIN loaded /\ f \in DOMAIN current /\ record[f] = loaded[f]
        THEN current[f]
        ELSE record[f]]

\* submit_review up to the branch on existing_review: the checks, now, and the
\* query for the latest review
BeginSubmitReview(application_id, review_data) ==
    LET failure == ValidateReview(application_id, review_data)
        untouched == <<now, dataVars, sampleVars, snapshots, jobs, snapResp, influenceVars,
                       next_id, documents, flagged_documents, review_audits, status_updates,
                       catalogVars>>
    IN  /\ Len(inflight) < MaxRequests
        /\ IdsIssued + 2 * Len(inflight) < MaxIdsIssued
        /\ IF failure.kind = "error"
           THEN /\ auditResp' = failure
                /\ UNCHANGED <<untouched, inflight>>
           ELSE \E existing_review \in LatestOf(ReviewsOf(bias_reviews, application_id)) :
                  IF existing_review = <<>> /\ ~OfficerGiven(review_data.officer_id)
                  THEN /\ auditResp' = BiasReviewSubmissionError(
                                           400, "Officer ID is required for new reviews")
                       /\ UNCHANGED <<untouched, inflight>>
                  ELSE /\ inflight' = Append(inflight,
                              [pc |-> "loaded", application_id |-> application_id,
                               review_data |-> review_data, now |-> now,
                               existing_review |-> existing_review, overtaken |-> FALSE])
                       /\ UNCHANGED <<untouched, auditResp>>

\* the rest of submit_review in session k: the row updated or added, the
\* StatusUpdate of a biased result, db.commit(), and the answer
CommitSubmitReview(k) ==
    /\ k \in 1..Len(inflight)
    /\ LET session == inflight[k]
           existing_review == session.existing_review
           created == IF existing_review = <<>> THEN 1 ELSE 0
           bias_review_record ==
               ReviewRecordAt(existing_review, session.application_id, session.review_data,
                              next_id + 1, session.now)
           status_update ==
               BiasStatusUpdate(session.application_id, session.review_data,
                                next_id + created + 1)
       IN  /\ bias_reviews' =
                 IF existing_review = <<>> THEN Append(bias_reviews, bias_review_record)
                 ELSE [i \in 1..Len(bias_reviews) |->
                          IF bias_reviews[i].id = existing_review[1].id
                          THEN FlushUpdate(bias_reviews[i], existing_review[1],
                                           bias_review_record)
                          ELSE bias_reviews[i]]
           /\ status_updates' =
                 status_updates
                 \o [i \in 1..Len(status_update) |->
                        [status_update[i] EXCEPT !.timestamp = session.now]]
           /\ next_id' = next_id + created + Len(status_update)
           /\ auditResp' = [ReviewPayload(bias_review_record) EXCEPT !.kind = "committed"]
                           @@ [overtaken |-> session.overtaken]
    /\ inflight' = [i \in 1..(Len(inflight) - 1) |->
                       [(IF i < k THEN inflight[i] ELSE inflight[i + 1])
                           EXCEPT !.overtaken = TRUE]]
    /\ UNCHANGED <<now, applications, sampleVars, snapshots, jobs, snapResp, influenceVars,
                   documents, flagged_documents, review_audits, catalogVars>>

\* time passes between the steps of the sessions
SubmitTick ==
    /\ now < SampleStart + MaxSubmitTicks
    /\ now' = now + 1
    /\ UNCHANGED <<dataVars, sampleVars, snapVars, next_id, auditVars, influenceVars>>

\* what two reviewing officers send for the same application
RacingRequests ==
    {[application_id |-> "app-1",
      review_data |-> [result |-> "biased", notes |-> "first reading",
                       officer_id |-> "john.davis"]],
     [application_id |-> "app-1",
      review_data |-> [result |-> "justified", notes |-> "second reading",
                       officer_id |-> "maria.schmidt"]],
     [application_id |-> "app-1",
      review_data |-> [result |-> "justified", notes |-> "no officer",
                       officer_id |-> NoneVal]],
     [application_id |-> "app-9",
      review_data |-> [result |-> "biased", notes |-> "n", officer_id |-> "john.davis"]]}

SubmitConcNext ==
    \/ \E request \in RacingRequests :
          BeginSubmitReview(request.application_id, request.review_data)
    \/ \E k \in 1..MaxRequests : CommitSubmitReview(k)
    \/ SubmitTick

\* submissions of separate sessions interleaved
SubmitConcSpec == ReviewInit /\ [][SubmitConcNext]_vars

\* both of two overlapping submissions have committed: the one that answered last
\* had read before the other committed
BothCommitted ==
    /\ inflight = <<>>
    /\ auditResp.kind = "committed"
    /\ auditResp.overtaken

\* C25: when two submit_review requests for the same application run in separate
\* sessions at once, after both have committed the application's latest review by
\* reviewed_at carries the result and the notes of the request that committed
\* last, whether a review existed or both requests found none and inserted one.
C25_LastCommitWins ==
    BothCommitted =>
        \A latest \in LatestOf(ReviewsOf(bias_reviews, auditResp.review.application_id)) :
            /\ latest[1].result = auditResp.review.result
            /\ latest[1].notes = auditResp.review.notes

\* both requests found no review and inserted one each; the review the request
\* that committed last inserted is the older of the two
C25_FirstCommitIsLatest ==
    /\ BothCommitted
    /\ \E mine, other \in Range(bias_reviews) :
          /\ mine.id = auditResp.review.id
          /\ other.application_id = mine.application_id
          /\ other.reviewed_at > mine.reviewed_at
          /\ other.result # mine.result

\* both requests updated the one existing review; the row has the notes of the
\* request that committed last and the result of the other
C25_MixedUpdate ==
    /\ BothCommitted
    /\ Len(bias_reviews) = 1
    /\ bias_reviews[1].notes = auditResp.review.notes
    /\ bias_reviews[1].result # auditResp.review.result

====
